---- MODULE Spec2Model ----
(***************************************************************************)
(* Model of conch's audio capture core (src/src/audio.rs): the RingBuffer, *)
(* the mutex-guarded SharedAudioState, the cpal input callback (producer)  *)
(* and the AudioCapture operations called by the main loop (consumer).     *)
(*                                                                         *)
(* Samples are modelled by integers.  The hardware numbers its frames      *)
(* 1, 2, 3, ... in arrival order (clock), so that every sample delivered   *)
(* by the device is distinguishable; 0 is the value vec![0.0; capacity]    *)
(* puts in fresh storage.  Rust vectors and slices are 0-indexed; TLA+     *)
(* sequences are 1-indexed, so data[i] of the code is rb.data[i + 1] here. *)
(***************************************************************************)
EXTENDS Integers, Sequences, FiniteSets, TLC

\* ---------------------------------------------------------------- bounds
\* SpecRing (the RingBuffer used alone, as the unit tests use it)
RingMaxCap == 4
RingMaxSamples == 6
RingMaxWrite == 4
\* Spec (producer callback and consumer sharing the mutex)
MaxCap == 2
MaxSamples == 4
MaxFrames == 2
\* FairSpec: frames the hardware still delivers
LiveFrames == 2
\* channel counts the device may negotiate: mono and stereo
ChannelCounts == {1, 2}

VARIABLES
    buffer,     \* SharedAudioState.buffer : RingBuffer {data, capacity, write_pos, count}
    recording,  \* SharedAudioState.recording
    lock,       \* holder of the Mutex<SharedAudioState>: "none", "producer", "consumer"
    channels,   \* channel count negotiated in AudioCapture::new
    ppc,        \* position of the input callback: "idle", "try_lock", "write", "unlock"
    pdata,      \* the callback's `data: &[T]`, interleaved hardware samples
    pchunks,    \* data.chunks(channels) not yet consumed by the callback's loop
    cpc,        \* position of the consumer: "idle", "lock" (in lock()), "body"
    cop,        \* the AudioCapture method the consumer is executing
    cn,         \* its argument n (read_last_samples)
    last,       \* the most recently completed call and what it returned
    work,       \* what the main loop computes from the snapshot it was returned:
                \* "none", "waveform" (run_app's tick), "transcribe" (handle_space)
    clock,      \* number of frames the hardware has delivered so far
    written,    \* history: samples passed to RingBuffer::write since new()/clear()
    session,    \* history: mono samples of the callbacks that locked while active, since start
    stale,      \* history: samples written to the buffer before the latest start_recording
    dropped,    \* history: frames whose callback found the lock contended
    input,      \* arguments of the free function being applied (resample, viz::*)
    output,     \* what it returned; NotCalled before the call
    focus,      \* a FocusState {entries, pointer, follow_mode} (src/src/focus.rs)
    appended,   \* history: the entries passed to FocusState::append, oldest first
    app,        \* run_app's App {state, pending_transcript, prompt_pending, error, transcripts}
    rx,         \* the unbounded channel of AppMessages to the main loop, oldest first
    threads,    \* the transcription threads and prompt tasks that have not sent their message
    sent        \* history: the texts passed to send_prompt_to_opencode, oldest first

vars == <<buffer, recording, lock, channels, ppc, pdata, pchunks, cpc, cop, cn,
          last, work, clock, written, session, stale, dropped, input, output,
          focus, appended, app, rx, threads, sent>>

\* ---------------------------------------------------------------- helpers
Min(a, b) == IF a <= b THEN a ELSE b

Range(s) == {s[i] : i \in 1..Len(s)}

\* the last k elements of s
LastN(s, k) == SubSeq(s, Len(s) - k + 1, Len(s))

\* the sequence <<a+1, ..., a+k>>
Fresh(a, k) == [i \in 1..k |-> a + i]

\* the sequence of k copies of v
Repeat(v, k) == [i \in 1..k |-> v]

RECURSIVE SumSeq(_)
SumSeq(s) == IF s = <<>> THEN 0 ELSE Head(s) + SumSeq(Tail(s))

\* A call's outcome: a returned vector, or a panic.
Ok(v) == [panicked |-> FALSE, val |-> v]
Panic == [panicked |-> TRUE, val |-> <<>>]

\* &s[a..b]: panics unless a <= b <= s.len()
Slice(s, a, b) == IF 0 <= a /\ a <= b /\ b <= Len(s) THEN Ok(SubSeq(s, a + 1, b)) ELSE Panic

\* result.extend_from_slice(..) twice
Extend(r1, r2) == IF r1.panicked \/ r2.panicked THEN Panic ELSE Ok(r1.val \o r2.val)

\* ---------------------------------------------------------------- RingBuffer
RingBuffer_new(capacity) ==
    [data |-> Repeat(0, capacity), capacity |-> capacity, write_pos |-> 0, count |-> 0]

\* mutant of RingBuffer_write_one: count is incremented without saturating at capacity
RingBuffer_write_one_unsaturated(rb, sample) ==
    IF rb.write_pos >= Len(rb.data) THEN [panicked |-> TRUE, rb |-> rb]
    ELSE [panicked |-> FALSE,
          rb |-> [rb EXCEPT !.data[rb.write_pos + 1] = sample,
                            !.write_pos = (rb.write_pos + 1) % rb.capacity,
                            !.count = rb.count + 1]]

\* mutant of RingBuffer_write_one: the write cursor is advanced without the modulo
RingBuffer_write_one_unwrapped(rb, sample) ==
    IF rb.write_pos >= Len(rb.data) THEN [panicked |-> TRUE, rb |-> rb]
    ELSE [panicked |-> FALSE,
          rb |-> [rb EXCEPT !.data[rb.write_pos + 1] = sample,
                            !.write_pos = rb.write_pos + 1,
                            !.count = IF rb.count < rb.capacity THEN rb.count + 1 ELSE rb.count]]

\* one iteration of write's loop; data[write_pos] panics when out of bounds
RingBuffer_write_one(rb, sample) ==
    IF rb.write_pos >= Len(rb.data) THEN [panicked |-> TRUE, rb |-> rb]
    ELSE [panicked |-> FALSE,
          rb |-> [rb EXCEPT !.data[rb.write_pos + 1] = sample,
                            !.write_pos = (rb.write_pos + 1) % rb.capacity,
                            !.count = IF rb.count < rb.capacity THEN rb.count + 1 ELSE rb.count]]

RECURSIVE RingBuffer_write(_, _)
RingBuffer_write(rb, samples) ==
    IF samples = <<>> THEN [panicked |-> FALSE, rb |-> rb]
    ELSE LET one == RingBuffer_write_one(rb, Head(samples)) IN
         IF one.panicked THEN one ELSE RingBuffer_write(one.rb, Tail(samples))

\* mutant of RingBuffer_read_all: the wrapped buffer is returned in storage order
RingBuffer_read_all_unrotated(rb) ==
    IF rb.count = 0 THEN Ok(<<>>) ELSE Slice(rb.data, 0, rb.count)

RingBuffer_read_all(rb) ==
    IF rb.count = 0 THEN Ok(<<>>)
    ELSE IF rb.count < rb.capacity
         THEN Slice(rb.data, 0, rb.count)
         ELSE Extend(Slice(rb.data, rb.write_pos, Len(rb.data)),
                     Slice(rb.data, 0, rb.write_pos))

\* mutant of RingBuffer_read_last: n is clamped to the write cursor instead of the count
RingBuffer_read_last_clamp_cursor(rb, n0) ==
    LET n == Min(n0, rb.write_pos) IN
    IF n = 0 THEN Ok(<<>>) ELSE Slice(rb.data, rb.write_pos - n, rb.write_pos)

\* mutant of RingBuffer_read_last: the window crossing the wrap boundary loses its
\* second copy
RingBuffer_read_last_one_copy(rb, n0) ==
    LET n == Min(n0, rb.count) IN
    IF n = 0 THEN Ok(<<>>)
    ELSE LET start == IF rb.write_pos >= n
                      THEN rb.write_pos - n
                      ELSE rb.capacity - (n - rb.write_pos)
         IN  IF start < 0 THEN Panic
             ELSE IF start + n <= rb.capacity
                  THEN Slice(rb.data, start, start + n)
                  ELSE Slice(rb.data, start, Len(rb.data))

RingBuffer_read_last(rb, n0) ==
    LET n == Min(n0, rb.count) IN
    IF n = 0 THEN Ok(<<>>)
    ELSE LET start == IF rb.write_pos >= n
                      THEN rb.write_pos - n
                      ELSE rb.capacity - (n - rb.write_pos)
         IN  IF start < 0 THEN Panic    \* usize subtraction overflow
             ELSE IF start + n <= rb.capacity
                  THEN Slice(rb.data, start, start + n)
                  ELSE LET remaining == n - (rb.capacity - start) IN
                       Extend(Slice(rb.data, start, Len(rb.data)),
                              Slice(rb.data, 0, remaining))

\* mutant of RingBuffer_clear: the write cursor is not reset
RingBuffer_clear_keeping_cursor(rb) == [rb EXCEPT !.count = 0]

RingBuffer_clear(rb) == [rb EXCEPT !.write_pos = 0, !.count = 0]

RingBuffer_len(rb) == rb.count

RingBuffer_is_empty(rb) == rb.count = 0

RingBuffer_capacity(rb) == rb.capacity

\* ---------------------------------------------------------------- call records
Returned(op, n, vec, flag) == [op |-> op, n |-> n, vec |-> vec, flag |-> flag, panicked |-> FALSE]
Panicked(op, n) == [op |-> op, n |-> n, vec |-> <<>>, flag |-> FALSE, panicked |-> TRUE]
NoCall == Returned("none", 0, <<>>, FALSE)

NotCalled == [fn |-> "none"]

\* Option<T>
None == [some |-> FALSE]
Some(v) == [some |-> TRUE, val |-> v]

\* FocusState::new
FocusState_new == [entries |-> <<>>, pointer |-> 0, follow_mode |-> TRUE]

\* App::new, the fields the push-to-talk flow reads and writes
App_new ==
    [state |-> "Idle", pending_transcript |-> FALSE, prompt_pending |-> None,
     error |-> None, transcripts |-> <<>>]

\* the terminal UI before run_app has handled anything
tui_idle ==
    /\ focus = FocusState_new /\ appended = <<>>
    /\ app = App_new /\ rx = <<>> /\ threads = {} /\ sent = <<>>

\* ---------------------------------------------------------------- SpecRing
\* The RingBuffer alone, driven sequentially by one owner.
capture_idle ==
    /\ recording = FALSE /\ lock = "none" /\ channels = 1
    /\ ppc = "idle" /\ pdata = <<>> /\ pchunks = <<>>
    /\ cpc = "idle" /\ cop = "none" /\ cn = 0 /\ work = "none"
    /\ session = <<>> /\ stale = {} /\ dropped = {}

RingInit ==
    /\ \E c \in 0..RingMaxCap : buffer = RingBuffer_new(c)
    /\ input = NotCalled /\ output = NotCalled
    /\ tui_idle
    /\ last = NoCall
    /\ clock = 0
    /\ written = <<>>
    /\ capture_idle

capture_unchanged ==
    UNCHANGED <<recording, lock, channels, ppc, pdata, pchunks, cpc, cop, cn, work,
                session, stale, dropped, input, output,
                focus, appended, app, rx, threads, sent>>

RingWrite ==
    /\ ~last.panicked
    /\ \E k \in 0..RingMaxWrite :
         /\ clock + k <= RingMaxSamples
         /\ LET samples == Fresh(clock, k)
                res == RingBuffer_write(buffer, samples)
            IN  /\ clock' = clock + k
                /\ IF res.panicked
                   THEN /\ last' = Panicked("write", k)
                        /\ UNCHANGED <<buffer, written>>
                   ELSE /\ buffer' = res.rb
                        /\ written' = written \o samples
                        /\ last' = Returned("write", k, <<>>, FALSE)
    /\ capture_unchanged

\* mutant of RingReadAll: a draining read, which empties the buffer it returns
RingReadAll_draining ==
    /\ ~last.panicked
    /\ LET res == RingBuffer_read_all(buffer) IN
       last' = IF res.panicked THEN Panicked("read_all", 0)
               ELSE Returned("read_all", 0, res.val, FALSE)
    /\ buffer' = RingBuffer_clear(buffer)
    /\ written' = <<>>
    /\ UNCHANGED clock
    /\ capture_unchanged

RingReadAll ==
    /\ ~last.panicked
    /\ LET res == RingBuffer_read_all(buffer) IN
       last' = IF res.panicked THEN Panicked("read_all", 0)
               ELSE Returned("read_all", 0, res.val, FALSE)
    /\ UNCHANGED <<buffer, clock, written>>
    /\ capture_unchanged

RingReadLast ==
    /\ ~last.panicked
    /\ \E n \in 0..(RingMaxCap + 1) :
         LET res == RingBuffer_read_last(buffer, n) IN
         last' = IF res.panicked THEN Panicked("read_last", n)
                 ELSE Returned("read_last", n, res.val, FALSE)
    /\ UNCHANGED <<buffer, clock, written>>
    /\ capture_unchanged

RingClear ==
    /\ ~last.panicked
    /\ buffer' = RingBuffer_clear(buffer)
    /\ written' = <<>>
    /\ last' = Returned("clear", 0, <<>>, FALSE)
    /\ UNCHANGED clock
    /\ capture_unchanged

RingNext == RingWrite \/ RingReadAll \/ RingReadLast \/ RingClear

SpecRing == RingInit /\ [][RingNext]_vars

\* ---------------------------------------------------------------- Spec
\* AudioCapture: the cpal input callback (producer thread) and the methods
\* called by the main loop (consumer thread) share Mutex<SharedAudioState>.

\* the interleaved hardware buffer of `frames` frames following frame `first`:
\* frame first + j carries the value first + j on each of its ch channels
HardwareData(first, frames, ch) ==
    [i \in 1..(frames * ch) |-> first + ((i - 1) \div ch) + 1]

\* data.chunks(channels): consecutive slices of `ch` elements, the last one shorter
\* when the length is not a multiple of ch
RECURSIVE Chunks(_, _)
Chunks(data, ch) ==
    IF data = <<>> THEN <<>>
    ELSE IF Len(data) <= ch THEN <<data>>
    ELSE <<SubSeq(data, 1, ch)>> \o Chunks(SubSeq(data, ch + 1, Len(data)), ch)

\* mutant of Mono: the channel sum is not divided by the channel count
Mono_undivided(chunk, ch) == SumSeq(chunk)

\* chunk.iter().map(from_sample).sum() / channels
Mono(chunk, ch) == SumSeq(chunk) \div ch

\* history: the frames of the callback in progress
PendingFrames == LastN(Fresh(0, clock), Len(pdata) \div channels)

\* AudioCapture::new: recording false, buffer of sample_rate * 60 samples
Init ==
    /\ \E c \in 1..MaxCap : buffer = RingBuffer_new(c)
    /\ \E ch \in ChannelCounts : channels = ch
    /\ recording = FALSE
    /\ lock = "none"
    /\ ppc = "idle" /\ pdata = <<>> /\ pchunks = <<>>
    /\ cpc = "idle" /\ cop = "none" /\ cn = 0 /\ work = "none"
    /\ last = NoCall
    /\ clock = 0
    /\ written = <<>> /\ session = <<>> /\ stale = {} /\ dropped = {}
    /\ input = NotCalled /\ output = NotCalled
    /\ tui_idle

consumer_unchanged ==
    UNCHANGED <<cpc, cop, cn, last, work, input, output, focus, appended, app, rx, threads, sent>>
producer_unchanged ==
    UNCHANGED <<ppc, pdata, pchunks, clock, dropped, input, output, focus, appended, app, rx, threads, sent>>

\* what the caller does with the vector it was returned: a non-empty snapshot is
\* processed (`if !samples.is_empty()` in run_app, `if samples.is_empty() { return }`
\* in handle_space), an empty one is not
SnapshotWork(kind, call) == IF ~call.panicked /\ call.vec # <<>> THEN kind ELSE "none"

\* the audio subsystem invokes the callback with the next hardware buffer
callback_invoke ==
    /\ ppc = "idle"
    /\ \E frames \in 1..MaxFrames :
         /\ clock + frames <= MaxSamples
         /\ pdata' = HardwareData(clock, frames, channels)
         /\ clock' = clock + frames
    /\ ppc' = "try_lock"
    /\ UNCHANGED <<buffer, recording, lock, channels, pchunks, written, session, stale, dropped>>
    /\ consumer_unchanged

\* mutant of callback_try_lock: a blocking lock() in the callback
callback_try_lock_blocking ==
    /\ ppc = "try_lock"
    /\ lock = "none"
    /\ lock' = "producer"
    /\ IF recording
       THEN /\ ppc' = "write"
            /\ pchunks' = Chunks(pdata, channels)
            /\ session' = session \o PendingFrames
       ELSE /\ ppc' = "unlock"
            /\ UNCHANGED <<pchunks, session>>
    /\ UNCHANGED <<buffer, recording, channels, pdata, clock, written, stale, dropped>>
    /\ consumer_unchanged

\* mutant of callback_try_lock: on contention the hardware buffer is kept and the
\* lock attempt is repeated
callback_try_lock_retrying ==
    /\ ppc = "try_lock"
    /\ IF lock = "none"
       THEN /\ lock' = "producer"
            /\ IF recording
               THEN /\ ppc' = "write"
                    /\ pchunks' = Chunks(pdata, channels)
                    /\ session' = session \o PendingFrames
               ELSE /\ ppc' = "unlock"
                    /\ UNCHANGED <<pchunks, session>>
            /\ UNCHANGED <<pdata, dropped>>
       ELSE /\ dropped' = dropped \cup Range(PendingFrames)
            /\ UNCHANGED <<lock, ppc, pdata, pchunks, session>>
    /\ UNCHANGED <<buffer, recording, channels, clock, written, stale>>
    /\ consumer_unchanged

\* mutant of callback_try_lock: the `if state.recording` test is missing
callback_try_lock_ignoring_flag ==
    /\ ppc = "try_lock"
    /\ IF lock = "none"
       THEN /\ lock' = "producer"
            /\ ppc' = "write"
            /\ pchunks' = Chunks(pdata, channels)
            /\ session' = IF recording THEN session \o PendingFrames ELSE session
            /\ UNCHANGED <<pdata, dropped>>
       ELSE /\ ppc' = "idle"
            /\ pdata' = <<>>
            /\ dropped' = dropped \cup Range(PendingFrames)
            /\ UNCHANGED <<lock, pchunks, session>>
    /\ UNCHANGED <<buffer, recording, channels, clock, written, stale>>
    /\ consumer_unchanged

\* shared.try_lock(): never waits; on contention the callback returns at once
callback_try_lock ==
    /\ ppc = "try_lock"
    /\ IF lock = "none"
       THEN /\ lock' = "producer"
            /\ IF recording
               THEN /\ ppc' = "write"
                    /\ pchunks' = Chunks(pdata, channels)
                    /\ session' = session \o PendingFrames
               ELSE /\ ppc' = "unlock"
                    /\ UNCHANGED <<pchunks, session>>
            /\ UNCHANGED <<pdata, dropped>>
       ELSE /\ ppc' = "idle"
            /\ pdata' = <<>>
            /\ dropped' = dropped \cup Range(PendingFrames)
            /\ UNCHANGED <<lock, pchunks, session>>
    /\ UNCHANGED <<buffer, recording, channels, clock, written, stale>>
    /\ consumer_unchanged

\* one iteration of `for chunk in data.chunks(channels)`
\* (the buffer of AudioCapture::new has capacity >= 1: data[write_pos] is in bounds)
callback_write ==
    /\ ppc = "write"
    /\ pchunks # <<>>
    /\ LET mono == Mono(Head(pchunks), channels)
           res == RingBuffer_write(buffer, <<mono>>)
       IN  /\ ~res.panicked
           /\ buffer' = res.rb
           /\ written' = Append(written, mono)
    /\ pchunks' = Tail(pchunks)
    /\ UNCHANGED <<recording, lock, channels, ppc, pdata, clock, session, stale, dropped>>
    /\ consumer_unchanged

\* mutant of callback_unlock: the guard is leaked, the mutex stays locked
callback_unlock_leaking_guard ==
    /\ \/ ppc = "unlock"
       \/ ppc = "write" /\ pchunks = <<>>
    /\ ppc' = "idle"
    /\ pdata' = <<>>
    /\ UNCHANGED <<buffer, recording, lock, channels, pchunks, clock, written, session, stale, dropped>>
    /\ consumer_unchanged

\* the guard `state` goes out of scope at the end of the closure
callback_unlock ==
    /\ \/ ppc = "unlock"
       \/ ppc = "write" /\ pchunks = <<>>
    /\ lock' = "none"
    /\ ppc' = "idle"
    /\ pdata' = <<>>
    /\ UNCHANGED <<buffer, recording, channels, pchunks, clock, written, session, stale, dropped>>
    /\ consumer_unchanged

\* the main loop calls one of AudioCapture's methods
consumer_call ==
    /\ cpc = "idle"
    /\ work = "none"
    /\ \/ /\ cop' \in {"start_recording", "stop_recording", "is_recording"}
          /\ cn' = 0
       \/ /\ cop' = "read_last_samples"
          /\ cn' \in 0..(MaxCap + 1)
    /\ cpc' = "lock"
    /\ UNCHANGED <<buffer, recording, lock, channels, last, work, written, session, stale>>
    /\ producer_unchanged

\* mutant of consumer_lock: the consumer enters without waiting for the mutex
consumer_lock_not_waiting ==
    /\ cpc = "lock"
    /\ lock' = "consumer"
    /\ cpc' = "body"
    /\ UNCHANGED <<buffer, recording, channels, cop, cn, last, work, written, session, stale>>
    /\ producer_unchanged

\* self.shared.lock().unwrap(): waits until the mutex is free
consumer_lock ==
    /\ cpc = "lock"
    /\ lock = "none"
    /\ lock' = "consumer"
    /\ cpc' = "body"
    /\ UNCHANGED <<buffer, recording, channels, cop, cn, last, work, written, session, stale>>
    /\ producer_unchanged

\* mutant of AudioCapture_start_recording: the buffer is not cleared
AudioCapture_start_recording_no_clear ==
    /\ cpc = "body" /\ cop = "start_recording"
    /\ recording' = TRUE
    /\ last' = Returned("start_recording", 0, <<>>, FALSE)
    /\ stale' = stale \cup Range(written)
    /\ written' = <<>>
    /\ session' = <<>>
    /\ lock' = "none"
    /\ cpc' = "idle"
    /\ UNCHANGED <<buffer, channels, cop, cn, work>>
    /\ producer_unchanged

AudioCapture_start_recording ==
    /\ cpc = "body" /\ cop = "start_recording"
    /\ buffer' = RingBuffer_clear(buffer)
    /\ recording' = TRUE
    /\ last' = Returned("start_recording", 0, <<>>, FALSE)
    /\ stale' = stale \cup Range(written)
    /\ written' = <<>>
    /\ session' = <<>>
    /\ lock' = "none"
    /\ cpc' = "idle"
    /\ UNCHANGED <<channels, cop, cn, work>>
    /\ producer_unchanged

AudioCapture_stop_recording ==
    /\ cpc = "body" /\ cop = "stop_recording"
    /\ recording' = FALSE
    /\ LET res == RingBuffer_read_all(buffer) IN
       last' = IF res.panicked THEN Panicked("stop_recording", 0)
               ELSE Returned("stop_recording", 0, res.val, FALSE)
    /\ work' = SnapshotWork("transcribe", last')
    /\ lock' = "none"
    /\ cpc' = "idle"
    /\ UNCHANGED <<buffer, channels, cop, cn, written, session, stale>>
    /\ producer_unchanged

AudioCapture_is_recording ==
    /\ cpc = "body" /\ cop = "is_recording"
    /\ last' = Returned("is_recording", 0, <<>>, recording)
    /\ lock' = "none"
    /\ cpc' = "idle"
    /\ UNCHANGED <<buffer, recording, channels, cop, cn, work, written, session, stale>>
    /\ producer_unchanged

\* mutant of AudioCapture_read_last_samples: the guard is still held when the
\* snapshot is handed to the caller
AudioCapture_read_last_samples_holding_lock ==
    /\ cpc = "body" /\ cop = "read_last_samples"
    /\ LET res == IF recording THEN RingBuffer_read_last(buffer, cn) ELSE Ok(<<>>) IN
       last' = IF res.panicked THEN Panicked("read_last_samples", cn)
               ELSE Returned("read_last_samples", cn, res.val, FALSE)
    /\ work' = SnapshotWork("waveform", last')
    /\ cpc' = "idle"
    /\ UNCHANGED <<buffer, recording, lock, channels, cop, cn, written, session, stale>>
    /\ producer_unchanged

\* mutant of AudioCapture_read_last_samples: the recording flag is not consulted
AudioCapture_read_last_samples_ignoring_flag ==
    /\ cpc = "body" /\ cop = "read_last_samples"
    /\ LET res == RingBuffer_read_last(buffer, cn) IN
       last' = IF res.panicked THEN Panicked("read_last_samples", cn)
               ELSE Returned("read_last_samples", cn, res.val, FALSE)
    /\ work' = SnapshotWork("waveform", last')
    /\ lock' = "none"
    /\ cpc' = "idle"
    /\ UNCHANGED <<buffer, recording, channels, cop, cn, written, session, stale>>
    /\ producer_unchanged

AudioCapture_read_last_samples ==
    /\ cpc = "body" /\ cop = "read_last_samples"
    /\ LET res == IF recording THEN RingBuffer_read_last(buffer, cn) ELSE Ok(<<>>) IN
       last' = IF res.panicked THEN Panicked("read_last_samples", cn)
               ELSE Returned("read_last_samples", cn, res.val, FALSE)
    /\ work' = SnapshotWork("waveform", last')
    /\ lock' = "none"
    /\ cpc' = "idle"
    /\ UNCHANGED <<buffer, recording, channels, cop, cn, written, session, stale>>
    /\ producer_unchanged

\* the main loop works on the detached snapshot: compute_rms_windows and the boost
\* of run_app's tick, or the transcription thread spawned by handle_space
process_snapshot ==
    /\ cpc = "idle"
    /\ work # "none"
    /\ work' = "none"
    /\ UNCHANGED <<buffer, recording, lock, channels, cpc, cop, cn, last, written, session, stale>>
    /\ producer_unchanged

Producer == callback_invoke \/ callback_try_lock \/ callback_write \/ callback_unlock

Consumer ==
    \/ consumer_call
    \/ consumer_lock
    \/ AudioCapture_start_recording
    \/ AudioCapture_stop_recording
    \/ AudioCapture_is_recording
    \/ AudioCapture_read_last_samples
    \/ process_snapshot

Next == Producer \/ Consumer

Spec == Init /\ [][Next]_vars

\* Scheduling: the audio thread runs a callback it has entered to its end, and the
\* main thread runs a method it has called to its end; a consumer waiting in lock()
\* obtains the mutex if it is free again and again (the callback holds it only
\* within one hardware period).  Nothing obliges the hardware to deliver a buffer
\* or the main loop to make a call.
Fairness ==
    /\ WF_vars(callback_try_lock)
    /\ WF_vars(callback_write)
    /\ WF_vars(callback_unlock)
    /\ SF_vars(consumer_lock)
    /\ WF_vars(AudioCapture_start_recording)
    /\ WF_vars(AudioCapture_stop_recording)
    /\ WF_vars(AudioCapture_is_recording)
    /\ WF_vars(AudioCapture_read_last_samples)

\* The fair behaviours are explored from the states of Spec in which the hardware
\* has delivered all but LiveFrames of its frames while no recording was active
\* (each of those callbacks took the lock, found the flag inactive and returned).
FairInit ==
    /\ \E c \in 1..MaxCap : buffer = RingBuffer_new(c)
    /\ \E ch \in ChannelCounts : channels = ch
    /\ recording = FALSE
    /\ lock = "none"
    /\ ppc = "idle" /\ pdata = <<>> /\ pchunks = <<>>
    /\ cpc = "idle" /\ cop = "none" /\ cn = 0 /\ work = "none"
    /\ last = NoCall
    /\ clock = MaxSamples - LiveFrames
    /\ written = <<>> /\ session = <<>> /\ stale = {} /\ dropped = {}
    /\ input = NotCalled /\ output = NotCalled
    /\ tui_idle

FairSpec == FairInit /\ [][Next]_vars /\ Fairness

\* ================================================================ claims

\* what a ring of capacity c holds after the samples w were written: the last
\* min(Len(w), c) of them, oldest first
Retained(w, c) == LastN(w, Min(Len(w), c))

\* C1: for capacity C > 0 and T samples written since creation or the last clear,
\* read_all() returns exactly the last min(T, C) written samples, oldest first.
C1_ReadAllReturnsLastWritten ==
    RingBuffer_capacity(buffer) > 0 =>
        /\ RingBuffer_read_all(buffer) = Ok(Retained(written, buffer.capacity))
        /\ last.op = "read_all" =>
             ~last.panicked /\ last.vec = Retained(written, buffer.capacity)

\* capacity 4, writes [1,2,3,4] then [5,6], read_all() == [3,4,5,6]
C1_Witness ==
    /\ buffer.capacity = 4
    /\ written = <<1, 2, 3, 4, 5, 6>>
    /\ last.op = "read_all"
    /\ last.vec = <<3, 4, 5, 6>>

\* C2: len() <= capacity in every reachable state, and once at least capacity
\* samples have been written since creation or the last clear, read_all() has
\* exactly capacity elements.
C2_LenBoundedAndFull ==
    /\ RingBuffer_len(buffer) <= RingBuffer_capacity(buffer)
    /\ Len(written) >= RingBuffer_capacity(buffer) =>
         /\ ~RingBuffer_read_all(buffer).panicked
         /\ Len(RingBuffer_read_all(buffer).val) = RingBuffer_capacity(buffer)
         /\ last.op = "read_all" =>
              ~last.panicked /\ Len(last.vec) = RingBuffer_capacity(buffer)

\* read_all() on a buffer that has been written past its capacity
C2_Witness ==
    /\ buffer.capacity >= 2
    /\ Len(written) > buffer.capacity
    /\ last.op = "read_all"
    /\ Len(last.vec) = buffer.capacity
    /\ RingBuffer_len(buffer) = buffer.capacity

\* C3: in any buffer state and for any n, read_last(n) returns exactly the last
\* min(n, count) elements of read_all(), in order; it never pads and never panics.
C3_ReadLastIsSuffixOfReadAll ==
    /\ \A n \in 0..(RingMaxCap + 1) :
         RingBuffer_read_last(buffer, n) =
             Ok(LastN(RingBuffer_read_all(buffer).val, Min(n, buffer.count)))
    /\ last.op = "read_last" =>
         /\ ~last.panicked
         /\ last.vec = LastN(RingBuffer_read_all(buffer).val, Min(last.n, buffer.count))
         /\ last.vec = LastN(written, Min(last.n, Min(Len(written), buffer.capacity)))

\* read_last(n) with n above the count, on a wrapped buffer whose window crosses
\* the end of the storage
C3_Witness ==
    /\ last.op = "read_last"
    /\ last.n > buffer.count
    /\ buffer.count = buffer.capacity
    /\ buffer.write_pos > 0
    /\ buffer.capacity = 4
    /\ last.vec = <<3, 4, 5, 6>>

\* the step in which the consumer's call `op` runs its body and returns
Returns(op) == cpc = "body" /\ cop = op /\ cpc' = "idle"

\* a step of the producer's callback
ProducerStep == <<ppc, pdata, pchunks>>' # <<ppc, pdata, pchunks>>

\* C4 as claimed: under any interleaving of producer callbacks and consumer reads,
\* a read_last(k) performed after a write returns at least
\* min(k, total_written_so_far) samples and does not panic.
C4_AtLeastMinOfKAndTotal ==
    [][(Returns("read_last_samples") /\ recording /\ written # <<>>) =>
          /\ ~last'.panicked
          /\ Len(last'.vec) >= Min(cn, Len(written))]_vars

\* C4 amended: such a read returns exactly min(k, total_written_so_far, capacity)
\* samples, the most recently written ones, and does not panic.
C4_ExactlyMinOfKTotalAndCapacity ==
    [][(Returns("read_last_samples") /\ recording /\ written # <<>>) =>
          /\ ~last'.panicked
          /\ Len(last'.vec) = Min(cn, Min(Len(written), buffer.capacity))
          /\ last'.vec = LastN(written, Len(last'.vec))]_vars

\* a read of k = 3 samples from a buffer of capacity 2 after 3 writes
C4_Witness ==
    /\ last.op = "read_last_samples"
    /\ last.n = 3
    /\ buffer.capacity = 2
    /\ last.vec = <<2, 3>>
    /\ written = <<1, 2, 3>>
    /\ recording

\* C5: stop_recording() sets the flag inactive and returns exactly the last
\* min(T, C) mono samples, in arrival order, of the callbacks that acquired the
\* lock while active since the start.
C5_StopReturnsSession ==
    last.op = "stop_recording" =>
        /\ ~recording
        /\ ~last.panicked
        /\ last.vec = Retained(session, buffer.capacity)

\* a stop after a session in which one callback was dropped and the buffer wrapped
C5_Witness ==
    /\ last.op = "stop_recording"
    /\ Len(session) > buffer.capacity
    /\ dropped # {}
    /\ channels = 2
    /\ last.vec # <<>>
    /\ \E d \in dropped : d > session[1] /\ d < session[Len(session)]

\* C6: start_recording() leaves the flag active and the buffer empty, and no sample
\* written before a start_recording is returned by a later read_last_samples or
\* stop_recording.
C6_StartClearsAndHidesStale ==
    /\ [][Returns("start_recording") =>
            /\ recording'
            /\ RingBuffer_len(buffer') = 0
            /\ RingBuffer_read_all(buffer') = Ok(<<>>)
            /\ \A n \in 0..(MaxCap + 1) : RingBuffer_read_last(buffer', n) = Ok(<<>>)]_vars
    /\ [](last.op \in {"read_last_samples", "stop_recording"} =>
            Range(last.vec) \cap stale = {})

\* a stop that returned samples while the storage still held a value of an
\* earlier session that had wrapped the buffer
C6_Witness ==
    /\ last.op = "stop_recording"
    /\ last.vec # <<>>
    /\ Cardinality(stale) > buffer.capacity
    /\ \E i \in 1..Len(buffer.data) : buffer.data[i] \in stale

\* C7: the callback never waits: from its lock attempt on, whatever the consumer
\* holds, the callback's next step is enabled, and the lock attempt is made once.
C7_ProducerNeverBlocks ==
    /\ [](ppc = "try_lock" => ENABLED callback_try_lock)
    /\ [](ppc \in {"write", "unlock"} =>
            lock = "producer" /\ ENABLED (callback_write \/ callback_unlock))
    /\ [][ppc = "try_lock" /\ ProducerStep => ppc' # "try_lock"]_vars

\* the callback is at its lock attempt while the consumer holds the lock
C7_Witness == ppc = "try_lock" /\ lock = "consumer" /\ cpc = "body"

\* C8: a callback that finds the lock held leaves buffer, flag and lock unchanged,
\* keeps nothing for later, and its samples appear in no later read.
C8_ContendedCallbackIsDiscarded ==
    /\ [][(ppc = "try_lock" /\ lock # "none" /\ ProducerStep) =>
            /\ UNCHANGED <<buffer, recording, lock, written, session>>
            /\ ppc' = "idle" /\ pdata' = <<>> /\ pchunks' = <<>>]_vars
    /\ [](/\ Range(buffer.data) \cap dropped = {}
          /\ Range(last.vec) \cap dropped = {}
          /\ Range(written) \cap dropped = {})

\* a stop returned the samples before and after a dropped frame
C8_Witness ==
    /\ last.op = "stop_recording"
    /\ \E d \in dropped : \E i, j \in 1..Len(last.vec) : last.vec[i] < d /\ d < last.vec[j]

\* C9: a callback that acquires the lock while the flag is inactive changes neither
\* the buffer nor the flag; the producer never changes the flag, and changes the
\* buffer only while recording is active.
C9_InactiveCallbackWritesNothing ==
    [][ProducerStep =>
          /\ UNCHANGED recording
          /\ ~recording => UNCHANGED <<buffer, written>>
          /\ buffer' # buffer => recording /\ lock = "producer"]_vars

\* a callback holds the lock while inactive, over a buffer that still holds samples
C9_Witness ==
    /\ ppc = "unlock"
    /\ lock = "producer"
    /\ ~recording
    /\ buffer.count > 0

\* C10: read_last_samples(n) returns the empty sequence whenever the flag is
\* inactive, and RingBuffer.read_last(n) of the current buffer while it is active.
C10_ReadLastSamplesGatedByFlag ==
    [][Returns("read_last_samples") =>
          /\ last'.op = "read_last_samples" /\ last'.n = cn
          /\ ~last'.panicked
          /\ ~recording => last'.vec = <<>>
          /\ recording => Ok(last'.vec) = RingBuffer_read_last(buffer, cn)]_vars

\* an inactive read of n > 0 samples from a buffer that holds samples
C10_Witness ==
    /\ last.op = "read_last_samples"
    /\ ~recording
    /\ last.n > 0
    /\ buffer.count > 0
    /\ last.vec = <<>>

\* C11: the consumer holds the lock only while copying the snapshot: whenever the
\* main loop is processing a snapshot (RMS windowing, normalization, rasterization,
\* transcription) the consumer does not hold the lock, and a callback making its
\* lock attempt during that processing acquires the lock instead of dropping.
C11_LockReleasedBeforeProcessing ==
    /\ [](work # "none" => lock # "consumer" /\ cpc = "idle")
    /\ [][(work # "none" /\ ppc = "try_lock" /\ ProducerStep) =>
            lock' = "producer" /\ dropped' = dropped]_vars
    /\ [][(Returns("read_last_samples") \/ Returns("stop_recording")) => lock' = "none"]_vars

\* a callback holds the lock and writes while the main loop processes a waveform
\* snapshot
C11_Witness ==
    /\ work = "waveform"
    /\ ppc = "write"
    /\ lock = "producer"
    /\ last.op = "read_last_samples"
    /\ Len(written) > Len(last.vec)

\* C12: every consumer operation that has been called eventually acquires the lock
\* and returns, under fair scheduling.
C12_ConsumerEventuallyReturns ==
    \A op \in {"start_recording", "stop_recording", "is_recording", "read_last_samples"} :
        (cpc = "lock" /\ cop = op) ~> (cpc = "idle" /\ last.op = op)

\* the consumer waits in lock() while the callback holds the mutex and still has
\* samples to write
C12_Witness ==
    /\ cpc = "lock"
    /\ lock = "producer"
    /\ ppc = "write"
    /\ pchunks # <<>>

\* C13: read_all() and read_last(n) leave contents, cursor and count unchanged, so
\* a read_all() directly after a read_all() returns the same sequence (and likewise
\* read_last(n)).
C13_ReadsAreNonDestructive ==
    /\ [][last'.op \in {"read_all", "read_last"} => buffer' = buffer]_vars
    /\ [](last.op = "read_all" => RingBuffer_read_all(buffer) = Ok(last.vec))
    /\ [](last.op = "read_last" => RingBuffer_read_last(buffer, last.n) = Ok(last.vec))

\* a read_all() of a wrapped buffer has returned; the buffer still holds what it returned
C13_Witness ==
    /\ last.op = "read_all"
    /\ Len(last.vec) >= 2
    /\ buffer.count = buffer.capacity
    /\ buffer.write_pos > 0
    /\ Len(written) > buffer.capacity

\* C14: clear() sets the write cursor and the count to zero and leaves the storage
\* and the capacity untouched; right after it len() == 0, is_empty() holds and
\* read_all() and read_last(n) are empty for every n.
C14_ClearResetsCursorAndCount ==
    /\ [][last'.op = "clear" =>
            /\ buffer'.data = buffer.data
            /\ RingBuffer_capacity(buffer') = RingBuffer_capacity(buffer)]_vars
    /\ [](last.op = "clear" =>
            /\ buffer.write_pos = 0 /\ buffer.count = 0
            /\ RingBuffer_len(buffer) = 0
            /\ RingBuffer_is_empty(buffer)
            /\ RingBuffer_read_all(buffer) = Ok(<<>>)
            /\ \A n \in 0..(RingMaxCap + 1) : RingBuffer_read_last(buffer, n) = Ok(<<>>))

\* clear() of a buffer whose storage keeps the samples written before
C14_Witness ==
    /\ last.op = "clear"
    /\ buffer.capacity >= 2
    /\ \A i \in 1..Len(buffer.data) : buffer.data[i] # 0

\* C15 as claimed: for every capacity >= 0 accepted by new() and every sample
\* sequence, write() completes without a panic, the cursor advanced modulo the
\* capacity and the count saturated at the capacity.
C15_WriteNeverPanics ==
    last.op = "write" =>
        /\ ~last.panicked
        /\ buffer.count = Min(Len(written), buffer.capacity)
        /\ buffer.capacity > 0 => buffer.write_pos = Len(written) % buffer.capacity

\* ---------------------------------------------------------------- f64 / f32
\* The arithmetic of resample, computed to the bit: IEEE 754 binary64 and
\* binary32, round to nearest, ties to even. A significand is a natural number
\* held in NLimbs (eight) limbs of LimbBits bits, least significant limb first; a float is
\* [m, e] with value m * 2^e and m of exactly F64Digits (F32Digits) bits, or zero.
\* Exponent range, infinities and NaN are left out: the rates are positive and
\* the lengths small.
LimbBits == 15
NLimbs == 8
F64Digits == 53
F32Digits == 24

RECURSIVE Pow2(_)
Pow2(k) == IF k = 0 THEN 1 ELSE 2 * Pow2(k - 1)

LimbBase == Pow2(LimbBits)

Limb(x, i) == IF i \in 1..NLimbs THEN x[i] ELSE 0

BigFromInt(n) ==
    <<n % LimbBase, (n \div LimbBase) % LimbBase, n \div (LimbBase * LimbBase),
      0, 0, 0, 0, 0>>

BigToInt(x) == x[1] + LimbBase * x[2] + LimbBase * LimbBase * x[3]

BigIsZero(x) == \A i \in 1..NLimbs : x[i] = 0

Bit(x, j) == (Limb(x, (j \div LimbBits) + 1) \div Pow2(j % LimbBits)) % 2

BitLen(x) ==
    IF BigIsZero(x) THEN 0
    ELSE LET t == CHOOSE i \in 1..NLimbs :
                      x[i] # 0 /\ \A j \in (i + 1)..NLimbs : x[j] = 0
             b == CHOOSE k \in 1..LimbBits : Pow2(k - 1) <= x[t] /\ x[t] < Pow2(k)
         IN (t - 1) * LimbBits + b

ShiftRight(x, k) ==
    LET a == k \div LimbBits
        b == k % LimbBits
        l(i) == (Limb(x, i + a) \div Pow2(b))
                + (Limb(x, i + a + 1) % Pow2(b)) * Pow2(LimbBits - b)
    IN <<l(1), l(2), l(3), l(4), l(5), l(6), l(7), l(8)>>

ShiftLeft(x, k) ==
    LET a == k \div LimbBits
        b == k % LimbBits
        l(i) == (Limb(x, i - a) % Pow2(LimbBits - b)) * Pow2(b)
                + (Limb(x, i - a - 1) \div Pow2(LimbBits - b))
    IN <<l(1), l(2), l(3), l(4), l(5), l(6), l(7), l(8)>>

LowBitsZero(x, k) == ShiftLeft(ShiftRight(x, k), k) = x

BigGeq(x, y) ==
    LET d == {i \in 1..NLimbs : x[i] # y[i]}
    IN d = {} \/ LET t == CHOOSE i \in d : \A j \in d : j <= i IN x[t] > y[t]

RECURSIVE AddLimbs(_, _, _, _)
AddLimbs(x, y, i, carry) ==
    IF i > NLimbs THEN <<>>
    ELSE LET t == x[i] + y[i] + carry
         IN <<t % LimbBase>> \o AddLimbs(x, y, i + 1, t \div LimbBase)

BigAdd(x, y) == AddLimbs(x, y, 1, 0)

\* x - y for x >= y
RECURSIVE SubLimbs(_, _, _, _)
SubLimbs(x, y, i, borrow) ==
    IF i > NLimbs THEN <<>>
    ELSE LET t == x[i] + LimbBase - y[i] - borrow
         IN <<t % LimbBase>> \o SubLimbs(x, y, i + 1, 1 - (t \div LimbBase))

BigSub(x, y) == SubLimbs(x, y, 1, 0)

\* x * k for one limb k
RECURSIVE MulLimbs(_, _, _, _)
MulLimbs(x, k, i, carry) ==
    IF i > NLimbs THEN <<>>
    ELSE LET t == x[i] * k + carry
         IN <<t % LimbBase>> \o MulLimbs(x, k, i + 1, t \div LimbBase)

\* x * y for x of at most four limbs (a significand)
BigMul(x, y) ==
    LET row(i) == ShiftLeft(MulLimbs(y, x[i], 1, 0), (i - 1) * LimbBits)
    IN BigAdd(BigAdd(row(1), row(2)), BigAdd(row(3), row(4)))

FZero == [m |-> BigFromInt(0), e |-> 0]

\* the float of p digits nearest to (x + s) * 2^e, where 0 < s < 1 when `sticky`
\* and s = 0 otherwise; ties to even
RoundTo(p, x, sticky, e) ==
    LET n == BitLen(x) IN
    IF n = 0 THEN FZero
    ELSE IF n <= p THEN [m |-> ShiftLeft(x, p - n), e |-> e - (p - n)]
    ELSE LET k == n - p
             q == ShiftRight(x, k)
             half == Bit(x, k - 1) = 1
             rest == sticky \/ ~LowBitsZero(x, k - 1)
             up == half /\ (rest \/ Bit(q, 0) = 1)
             r == IF up THEN BigAdd(q, BigFromInt(1)) ELSE q
         IN IF BitLen(r) > p THEN [m |-> ShiftRight(r, 1), e |-> e + k + 1]
            ELSE [m |-> r, e |-> e + k]

\* `n as f64` for an integer n < 2^31: exact
as_f64(n) == RoundTo(F64Digits, BigFromInt(n), FALSE, 0)

\* the next n bits of the quotient of r by d, for r < 2 * d, by restoring
\* division (most significant bit first), and the remainder r it leaves (already
\* doubled for the bit after). The bits are produced in halves, which keeps the
\* evaluation shallow.
RECURSIVE DivBits(_, _, _)
DivBits(r, d, n) ==
    IF n = 1
    THEN IF BigGeq(r, d)
         THEN [q |-> <<1>>, r |-> ShiftLeft(BigSub(r, d), 1)]
         ELSE [q |-> <<0>>, r |-> ShiftLeft(r, 1)]
    ELSE LET hi == DivBits(r, d, n \div 2)
             lo == DivBits(hi.r, d, n - (n \div 2))
         IN [q |-> hi.q \o lo.q, r |-> lo.r]

\* the natural number whose binary digits are `bits`, most significant first
BigFromBits(bits) ==
    LET n == Len(bits)
        v(p, t) == IF p + t < n THEN bits[n - (p + t)] * Pow2(t) ELSE 0
        l(j) == LET p == (j - 1) * LimbBits
                IN v(p, 0) + v(p, 1) + v(p, 2) + v(p, 3) + v(p, 4) + v(p, 5)
                   + v(p, 6) + v(p, 7) + v(p, 8) + v(p, 9) + v(p, 10) + v(p, 11)
                   + v(p, 12) + v(p, 13) + v(p, 14)
    IN <<l(1), l(2), l(3), l(4), l(5), l(6), l(7), l(8)>>

\* a / b in f64, b # 0
F64_div(a, b) ==
    IF BigIsZero(a.m) THEN FZero
    ELSE LET d == DivBits(a.m, b.m, F64Digits + 3)
         IN RoundTo(F64Digits, BigFromBits(d.q), ~BigIsZero(d.r),
                    a.e - b.e - (F64Digits + 2))

\* a * b in f64
F64_mul(a, b) ==
    IF BigIsZero(a.m) \/ BigIsZero(b.m) THEN FZero
    ELSE RoundTo(F64Digits, BigMul(a.m, b.m), FALSE, a.e + b.e)

\* a - b in f64, for a >= b >= 0
F64_sub(a, b) ==
    IF BigIsZero(b.m) THEN a
    ELSE RoundTo(F64Digits, BigSub(ShiftLeft(a.m, a.e - b.e), b.m), FALSE, b.e)

\* mutant of as_usize: rounds to the nearest integer instead of truncating
as_usize_nearest(x) ==
    IF x.e >= 0 THEN BigToInt(ShiftLeft(x.m, x.e))
    ELSE BigToInt(ShiftRight(x.m, 0 - x.e)) + Bit(x.m, (0 - x.e) - 1)

\* `x as usize` for x >= 0: truncation
as_usize(x) ==
    IF x.e >= 0 THEN BigToInt(ShiftLeft(x.m, x.e))
    ELSE BigToInt(ShiftRight(x.m, 0 - x.e))

\* `x as f32`: the significand as an integer of F32Digits bits, and the exponent
as_f32(x) ==
    LET r == RoundTo(F32Digits, x.m, FALSE, x.e)
    IN [num |-> BigToInt(r.m), exp |-> r.e]

\* ---------------------------------------------------------------- SpecResample
\* resample (audio.rs), applied once to an input drawn in ResampleInit.
ResampleMaxLen == 4
ResampleMaxBlocks == 3

\* device rates and the rate of the speech model (stt.rs calls resample(_, rate, 16000))
ResampleRates == {16000, 44100, 48000}

\* short inputs, and inputs of whole 10 ms blocks of 16 kHz audio
ResampleLengths == (0..ResampleMaxLen) \cup {160 * k : k \in 1..ResampleMaxBlocks}

\* s1 + (s2 - s1) * frac in f32: s1 when s2 = s1 or frac = 0.0, else the
\* interpolation between two different samples, left unevaluated
Lerp(s1, s2, frac) ==
    IF s1 = s2 \/ frac.num = 0 THEN s1 ELSE [s1 |-> s1, s2 |-> s2, frac |-> frac]

\* resample past its early return: from_rate # to_rate and samples non-empty
resample_interpolate(samples, from_rate, to_rate) ==
    LET ratio == F64_div(as_f64(from_rate), as_f64(to_rate))
        output_len == as_usize(F64_div(as_f64(Len(samples)), ratio))
        sample(i) ==
            LET src_idx == F64_mul(as_f64(i), ratio)
                idx == as_usize(src_idx)
                frac == as_f32(F64_sub(src_idx, as_f64(idx)))
                s1 == samples[Min(idx, Len(samples) - 1) + 1]
                s2 == samples[Min(idx + 1, Len(samples) - 1) + 1]
            IN Lerp(s1, s2, frac)
    IN [i \in 1..output_len |-> sample(i - 1)]

\* mutant of resample: the early return hands back a new, empty vector
resample_empty_when_equal(samples, from_rate, to_rate) ==
    IF from_rate = to_rate \/ samples = <<>> THEN <<>>
    ELSE resample_interpolate(samples, from_rate, to_rate)

resample(samples, from_rate, to_rate) ==
    IF from_rate = to_rate \/ samples = <<>> THEN samples
    ELSE resample_interpolate(samples, from_rate, to_rate)

free_idle ==
    /\ buffer = RingBuffer_new(0) /\ last = NoCall /\ clock = 0 /\ written = <<>>
    /\ capture_idle
    /\ tui_idle

free_unchanged ==
    UNCHANGED <<buffer, recording, lock, channels, ppc, pdata, pchunks, cpc, cop, cn,
                last, work, clock, written, session, stale, dropped,
                focus, appended, app, rx, threads, sent>>

ResampleInit ==
    /\ \E l \in ResampleLengths, from_rate \in ResampleRates, to_rate \in ResampleRates :
           input = [fn |-> "resample", samples |-> Fresh(0, l),
                    from_rate |-> from_rate, to_rate |-> to_rate]
    /\ output = NotCalled
    /\ free_idle

ResampleCall ==
    /\ input.fn = "resample" /\ output = NotCalled
    /\ output' = [fn |-> "resample",
                  ret |-> resample(input.samples, input.from_rate, input.to_rate)]
    /\ UNCHANGED input
    /\ free_unchanged

SpecResample == ResampleInit /\ [][ResampleCall]_vars

\* ---------------------------------------------------------------- claims C16, C17
\* C16: resample(x, r, r) = x for every input x and rate r, and
\* resample([], r1, r2) = [] for all rates r1, r2.
C16_ResampleIdentity ==
    (output.fn = "resample" /\ (input.from_rate = input.to_rate \/ input.samples = <<>>))
        => output.ret = input.samples

\* resample of three blocks at equal rates has returned its input
C16_Witness ==
    /\ output.fn = "resample"
    /\ input.from_rate = input.to_rate
    /\ Len(input.samples) > ResampleMaxLen
    /\ output.ret = input.samples

\* C17 as claimed: for from_rate # to_rate and a non-empty input of length L,
\* resample returns exactly floor(L * to_rate / from_rate) samples.
C17_LengthIsExactFloor ==
    (output.fn = "resample" /\ input.from_rate # input.to_rate /\ input.samples # <<>>)
        => Len(output.ret) = (Len(input.samples) * input.to_rate) \div input.from_rate

\* C17, amended: the length is floor(L * to_rate / from_rate) or one less; it is
\* one less only when L * to_rate / from_rate is a whole number, and never when
\* to_rate divides from_rate (48000 -> 16000 yields floor(L / 3)).
C17_LengthWithinOneOfFloor ==
    (output.fn = "resample" /\ input.from_rate # input.to_rate /\ input.samples # <<>>)
        => LET L == Len(input.samples)
               N == (L * input.to_rate) \div input.from_rate
               len == Len(output.ret)
           IN /\ len \in {N - 1, N}
              /\ (L * input.to_rate) % input.from_rate # 0 => len = N
              /\ input.from_rate % input.to_rate = 0 => len = N

\* 480 samples from 48000 to 44100 Hz: 441 exactly, 440 returned
C17_Witness ==
    /\ output.fn = "resample"
    /\ input.from_rate = 48000 /\ input.to_rate = 44100
    /\ Len(input.samples) = 480
    /\ Len(output.ret) = 440

\* ---------------------------------------------------------------- SpecNormalize
\* viz::normalize_magnitudes. Magnitudes, noise floor and reference floor are
\* whole multiples of one unit; a result is the exact fraction [num, den] in lowest
\* terms (f32 division rounds it without moving it across 0 or 1). The noise
\* floor is non-negative, as a floor of magnitudes is, and all values are finite.
NormMaxLen == 3
NormMaxMag == 3
NormMaxFloor == 2

RECURSIVE GCD(_, _)
GCD(a, b) == IF b = 0 THEN a ELSE GCD(b, a % b)

Abs(a) == IF a < 0 THEN 0 - a ELSE a

\* a / b for b > 0
Ratio(a, b) == LET g == GCD(Abs(a), b) IN [num |-> a \div g, den |-> b \div g]

Zero == [num |-> 0, den |-> 1]
One == [num |-> 1, den |-> 1]

\* f32::clamp(0.0, 1.0)
Clamp01(v) == IF v.num < 0 THEN Zero ELSE IF v.num > v.den THEN One ELSE v

Max(a, b) == IF a >= b THEN a ELSE b

\* iter().fold(init, f32::max)
RECURSIVE FoldMax(_, _)
FoldMax(s, init) == IF s = <<>> THEN init ELSE FoldMax(Tail(s), Max(init, Head(s)))

\* mutant of normalize_magnitudes: the noise gate lets through m == noise_floor
normalize_magnitudes_strict_floor(magnitudes, noise_floor, min_ref) ==
    IF magnitudes = <<>> THEN <<>>
    ELSE LET max == FoldMax(magnitudes, 0) IN
         IF max <= noise_floor THEN Repeat(Zero, Len(magnitudes))
         ELSE LET ref_level == Max(max, min_ref)
              IN [i \in 1..Len(magnitudes) |->
                     IF magnitudes[i] < noise_floor THEN Zero
                     ELSE Clamp01(Ratio(magnitudes[i], ref_level))]

normalize_magnitudes(magnitudes, noise_floor, min_ref) ==
    IF magnitudes = <<>> THEN <<>>
    ELSE LET max == FoldMax(magnitudes, 0) IN
         IF max <= noise_floor THEN Repeat(Zero, Len(magnitudes))
         ELSE LET ref_level == Max(max, min_ref)
              IN [i \in 1..Len(magnitudes) |->
                     IF magnitudes[i] <= noise_floor THEN Zero
                     ELSE Clamp01(Ratio(magnitudes[i], ref_level))]

NormalizeInit ==
    /\ \E n \in 0..NormMaxLen :
       \E magnitudes \in [1..n -> (0 - 1)..NormMaxMag] :
       \E noise_floor \in 0..NormMaxFloor, min_ref \in 0..(NormMaxMag + 1) :
           input = [fn |-> "normalize_magnitudes", magnitudes |-> magnitudes,
                    noise_floor |-> noise_floor, min_ref |-> min_ref]
    /\ output = NotCalled
    /\ free_idle

NormalizeCall ==
    /\ input.fn = "normalize_magnitudes" /\ output = NotCalled
    /\ output' = [fn |-> "normalize_magnitudes",
                  ret |-> normalize_magnitudes(input.magnitudes, input.noise_floor,
                                               input.min_ref)]
    /\ UNCHANGED input
    /\ free_unchanged

SpecNormalize == NormalizeInit /\ [][NormalizeCall]_vars

RmsMaxLen == 5
RmsMaxWindows == 4
RmsMaxAmp == 1

NaN == [sq |-> [num |-> 0, den |-> 0]]

\* sum_sq of a chunk
RECURSIVE SumSq(_)
SumSq(chunk) == IF chunk = <<>> THEN 0 ELSE Head(chunk) * Head(chunk) + SumSq(Tail(chunk))

\* (sum_sq / chunk.len() as f32).sqrt()
Rms(chunk) == IF chunk = <<>> THEN NaN ELSE [sq |-> Ratio(SumSq(chunk), Len(chunk))]

\* mutant of Window: the last window has chunk_size samples like the others
Window_without_remainder(i, chunk_size, num_windows, len) ==
    [start |-> i * chunk_size, end |-> i * chunk_size + chunk_size]

\* the bounds start..end of window i (0-based) of num_windows over len samples
Window(i, chunk_size, num_windows, len) ==
    [start |-> i * chunk_size,
     end |-> IF i = num_windows - 1 THEN len ELSE i * chunk_size + chunk_size]

\* the windows past both early returns
rms_of_windows(samples, num_windows, chunk_size) ==
    LET chunk(i) == LET w == Window(i, chunk_size, num_windows, Len(samples))
                    IN Slice(samples, w.start, w.end)
    IN IF \E i \in 0..(num_windows - 1) : chunk(i).panicked THEN Panic
       ELSE Ok([i \in 1..num_windows |-> Rms(chunk(i - 1).val)])

\* mutant of compute_rms_windows: without the chunk_size == 0 return
compute_rms_windows_unguarded(samples, num_windows) ==
    IF samples = <<>> \/ num_windows = 0 THEN Ok(Repeat([sq |-> Zero], num_windows))
    ELSE rms_of_windows(samples, num_windows, Len(samples) \div num_windows)

compute_rms_windows(samples, num_windows) ==
    IF samples = <<>> \/ num_windows = 0 THEN Ok(Repeat([sq |-> Zero], num_windows))
    ELSE LET chunk_size == Len(samples) \div num_windows IN
         IF chunk_size = 0 THEN Ok(Repeat([sq |-> Zero], num_windows))
         ELSE rms_of_windows(samples, num_windows, chunk_size)

RmsInit ==
    /\ \E l \in 0..RmsMaxLen :
       \E samples \in [1..l -> (0 - RmsMaxAmp)..RmsMaxAmp] :
       \E num_windows \in 0..RmsMaxWindows :
           input = [fn |-> "compute_rms_windows", samples |-> samples,
                    num_windows |-> num_windows]
    /\ output = NotCalled
    /\ free_idle

RmsCall ==
    /\ input.fn = "compute_rms_windows" /\ output = NotCalled
    /\ LET res == compute_rms_windows(input.samples, input.num_windows)
       IN output' = [fn |-> "compute_rms_windows", panicked |-> res.panicked,
                     ret |-> IF res.panicked THEN <<>> ELSE res.val]
    /\ UNCHANGED input
    /\ free_unchanged

SpecRms == RmsInit /\ [][RmsCall]_vars

\* C19: compute_rms_windows(samples, n) never fails and returns exactly n
\* non-negative values: none when n = 0, n zeros when samples is empty or has
\* fewer than n elements.
C19_RmsReturnsNNonNegative ==
    output.fn = "compute_rms_windows" =>
        LET n == input.num_windows
            r == output.ret
        IN /\ ~output.panicked
           /\ Len(r) = n
           /\ \A i \in 1..n : r[i].sq.den > 0 /\ r[i].sq.num >= 0
           /\ n = 0 => r = <<>>
           /\ Len(input.samples) < n => \A i \in 1..n : r[i].sq = Zero

\* three windows over five samples: the last window takes the remainder, and a
\* window of non-zero samples has a non-zero value
C19_Witness ==
    /\ output.fn = "compute_rms_windows"
    /\ input.num_windows = 3 /\ Len(input.samples) = 5
    /\ Len(output.ret) = 3
    /\ output.ret[1].sq = Zero
    /\ output.ret[3].sq = One

\* ---------------------------------------------------------------- SpecWaveform
\* viz::render_waveform_to_canvas on a new BrailleCanvas. An amplitude is the
\* numerator of a fraction over AmpDen, from below 0.0 to above 1.0; AmpDen is a
\* power of two, so that amplitudes and their products with `center` are exact
\* in f32.
WaveMaxCols == 2
WaveMaxRows == 2
WaveMaxBars == 2
AmpBits == 2

AmpDen == Pow2(AmpBits)

BrailleCanvas_new(terminal_cols, terminal_rows) ==
    [width |-> terminal_cols * 2, height |-> terminal_rows * 4,
     dots |-> Repeat(FALSE, (terminal_cols * 2) * (terminal_rows * 4))]

get_dot(canvas, x, y) ==
    IF x < canvas.width /\ y < canvas.height THEN canvas.dots[y * canvas.width + x + 1]
    ELSE FALSE

\* mutant of fill_vertical_line: `for y in start..end`, the last row left out
fill_vertical_line_exclusive(canvas, x, y_start, y_end) ==
    IF x >= canvas.width THEN canvas
    ELSE LET start == Min(y_start, y_end)
             end == Min(Max(y_start, y_end), canvas.height - 1)
         IN [canvas EXCEPT !.dots =
                [k \in 1..Len(@) |->
                    @[k] \/ \E y \in start..(end - 1) : k = y * canvas.width + x + 1]]

\* called with height >= 2 only (extent >= 1), so height - 1 does not underflow
fill_vertical_line(canvas, x, y_start, y_end) ==
    IF x >= canvas.width THEN canvas
    ELSE LET start == Min(y_start, y_end)
             end == Min(Max(y_start, y_end), canvas.height - 1)
         IN [canvas EXCEPT !.dots =
                [k \in 1..Len(@) |->
                    @[k] \/ \E y \in start..end : k = y * canvas.width + x + 1]]

\* amp.clamp(0.0, 1.0), as a numerator over AmpDen
ClampAmp(amp) == Max(0, Min(amp, AmpDen))

\* (amp * center as f32).round() as usize: halves round away from zero
Extent(amp, center) == (2 * ClampAmp(amp) * center + AmpDen) \div (2 * AmpDen)

\* the loop of render_waveform_to_canvas from bar i (0-based) on
RECURSIVE render_bars(_, _, _)
render_bars(bars, canvas, i) ==
    IF i >= Len(bars) THEN canvas
    ELSE LET center == canvas.height \div 2
             extent == Extent(bars[i + 1], center)
             px_left == i * 2
             px_right == i * 2 + 1
             y_top == Max(center - extent, 0)
             y_bot == Min(center + extent - 1, canvas.height - 1)
         IN IF extent = 0 THEN render_bars(bars, canvas, i + 1)
            ELSE render_bars(bars,
                             fill_vertical_line(
                                 fill_vertical_line(canvas, px_left, y_top, y_bot),
                                 px_right, y_top, y_bot),
                             i + 1)

render_waveform_to_canvas(bars, canvas) == render_bars(bars, canvas, 0)

WaveformInit ==
    /\ \E n \in 0..WaveMaxBars :
       \E bars \in [1..n -> (0 - 1)..(AmpDen + 1)] :
       \E cols \in 0..WaveMaxCols, rows \in 0..WaveMaxRows :
           input = [fn |-> "render_waveform_to_canvas", bars |-> bars,
                    cols |-> cols, rows |-> rows]
    /\ output = NotCalled
    /\ free_idle

WaveformCall ==
    /\ input.fn = "render_waveform_to_canvas" /\ output = NotCalled
    /\ output' = [fn |-> "render_waveform_to_canvas",
                  canvas |-> render_waveform_to_canvas(
                                 input.bars, BrailleCanvas_new(input.cols, input.rows))]
    /\ UNCHANGED input
    /\ free_unchanged

SpecWaveform == WaveformInit /\ [][WaveformCall]_vars

\* C20: on a new canvas of height H = 4 * rows with center = H / 2, for every bar i
\* with amplitude a clamped to [0, 1] and e = round(a * center), the dots set in
\* dot-columns 2i and 2i+1 are exactly the rows center-e .. center+e-1: a band of
\* height 2e, symmetric about the centre, inside the canvas; no dot when e = 0.
\* A dot-column that belongs to no bar stays empty.
C20_BandIsSymmetricAboutCentre ==
    output.fn = "render_waveform_to_canvas" =>
        LET c == output.canvas
            center == (4 * input.rows) \div 2
            e(x) == IF x \div 2 < Len(input.bars)
                    THEN Extent(input.bars[(x \div 2) + 1], center)
                    ELSE 0
        IN /\ c.width = 2 * input.cols /\ c.height = 4 * input.rows
           /\ \A x \in 0..(c.width - 1) :
                /\ 0 <= center - e(x) /\ center + e(x) - 1 <= c.height - 1
                /\ \A y \in 0..(c.height - 1) :
                     /\ get_dot(c, x, y) <=> (center - e(x) <= y /\ y <= center + e(x) - 1)
                     /\ get_dot(c, x, y) <=> get_dot(c, x, c.height - 1 - y)
                /\ Cardinality({y \in 0..(c.height - 1) : get_dot(c, x, y)}) = 2 * e(x)

\* one bar above 1.0 fills its two columns, another has a band strictly inside
C20_Witness ==
    /\ output.fn = "render_waveform_to_canvas"
    /\ input.cols = 2 /\ input.rows = 2 /\ Len(input.bars) = 2
    /\ input.bars[1] > AmpDen
    /\ get_dot(output.canvas, 0, 0) /\ get_dot(output.canvas, 1, 7)
    /\ Extent(input.bars[2], 4) = 2
    /\ get_dot(output.canvas, 3, 2) /\ ~get_dot(output.canvas, 3, 1)
    /\ get_dot(output.canvas, 2, 5) /\ ~get_dot(output.canvas, 2, 6)

\* ---------------------------------------------------------------- SpecBraille
\* viz::dots_to_braille, applied to each of the 256 cells. dots[r + 1][c + 1] is
\* the source's dots[r][c].
BrailleBase == 10240

\* bits |= mask, for a mask of one bit
BitOr(bits, mask) == IF (bits \div mask) % 2 = 1 THEN bits ELSE bits + mask

\* mutant of dots_to_braille: bits numbered down the left column, then the right
dots_to_braille_column_major(dots) ==
    LET b0 == IF dots[1][1] THEN BitOr(0, Pow2(0)) ELSE 0
        b1 == IF dots[2][1] THEN BitOr(b0, Pow2(1)) ELSE b0
        b2 == IF dots[3][1] THEN BitOr(b1, Pow2(2)) ELSE b1
        b3 == IF dots[4][1] THEN BitOr(b2, Pow2(3)) ELSE b2
        b4 == IF dots[1][2] THEN BitOr(b3, Pow2(4)) ELSE b3
        b5 == IF dots[2][2] THEN BitOr(b4, Pow2(5)) ELSE b4
        b6 == IF dots[3][2] THEN BitOr(b5, Pow2(6)) ELSE b5
        b7 == IF dots[4][2] THEN BitOr(b6, Pow2(7)) ELSE b6
    IN BrailleBase + b7

dots_to_braille(dots) ==
    LET b0 == IF dots[1][1] THEN BitOr(0, Pow2(0)) ELSE 0
        b1 == IF dots[2][1] THEN BitOr(b0, Pow2(1)) ELSE b0
        b2 == IF dots[3][1] THEN BitOr(b1, Pow2(2)) ELSE b1
        b3 == IF dots[4][1] THEN BitOr(b2, Pow2(6)) ELSE b2
        b4 == IF dots[1][2] THEN BitOr(b3, Pow2(3)) ELSE b3
        b5 == IF dots[2][2] THEN BitOr(b4, Pow2(4)) ELSE b4
        b6 == IF dots[3][2] THEN BitOr(b5, Pow2(5)) ELSE b5
        b7 == IF dots[4][2] THEN BitOr(b6, Pow2(7)) ELSE b6
    IN BrailleBase + b7

BrailleInit ==
    /\ \E dots \in [1..4 -> [1..2 -> BOOLEAN]] :
           input = [fn |-> "dots_to_braille", dots |-> dots]
    /\ output = NotCalled
    /\ free_idle

BrailleCall ==
    /\ input.fn = "dots_to_braille" /\ output = NotCalled
    /\ output' = [fn |-> "dots_to_braille", ret |-> dots_to_braille(input.dots)]
    /\ UNCHANGED input
    /\ free_unchanged

SpecBraille == BrailleInit /\ [][BrailleCall]_vars

\* the bit the claim gives to the dot in row r, column c (both from 0)
DotBit(r, c) == <<<<0, 3>>, <<1, 4>>, <<2, 5>>, <<6, 7>>>>[r + 1][c + 1]

\* the cell whose glyph has the packed bits b
CellOfBits(b) == [r \in 1..4 |-> [c \in 1..2 |-> (b \div Pow2(DotBit(r - 1, c - 1))) % 2 = 1]]

\* C21: for each of the 256 cells dots_to_braille returns 0x2800 + bits, where the
\* left column's rows 0..3 set bits 0, 1, 2, 6 and the right column's set bits
\* 3, 4, 5, 7: empty -> +0, full -> +255, left column only -> +71, right column
\* only -> +184, and the glyph determines the cell (distinct cells, distinct glyphs).
C21_BraillePacking ==
    output.fn = "dots_to_braille" =>
        LET d == input.dots
            on == {rc \in (0..3) \X (0..1) : d[rc[1] + 1][rc[2] + 1]}
            bits == output.ret - BrailleBase
            col(c) == \A r \in 1..4 : d[r][c]
            none(c) == \A r \in 1..4 : ~d[r][c]
        IN /\ bits \in 0..255
           /\ \A rc \in (0..3) \X (0..1) :
                  (bits \div Pow2(DotBit(rc[1], rc[2]))) % 2 = (IF rc \in on THEN 1 ELSE 0)
           /\ CellOfBits(bits) = d
           /\ (none(1) /\ none(2)) => bits = 0
           /\ (col(1) /\ col(2)) => bits = 255
           /\ (col(1) /\ none(2)) => bits = 71
           /\ (none(1) /\ col(2)) => bits = 184

\* the cell with only its left column filled has become glyph 0x2847
C21_Witness ==
    /\ output.fn = "dots_to_braille"
    /\ \A r \in 1..4 : input.dots[r][1] /\ ~input.dots[r][2]
    /\ output.ret = BrailleBase + 71

\* ================================================================ FocusState
\* src/src/focus.rs: the history of focus entries, newest first, with the
\* pointer of the entry on display and the follow mode.  entries[i] of the code
\* is focus.entries[i + 1] here.

\* SpecFocus: number of entries appended to one history
FocusMaxLen == 4

\* FocusEntry
File(path) == [kind |-> "File", val |-> path]
Directory(path) == [kind |-> "Directory", val |-> path]
Branch(name) == [kind |-> "Branch", val |-> name]
Commit(hash) == [kind |-> "Commit", val |-> hash]

\* the entries SpecFocus appends
FocusEntries == {File("a.rs"), Directory("src"), Branch("main")}

\* the sequence s, last element first
Reverse(s) == [i \in 1..Len(s) |-> s[Len(s) + 1 - i]]

\* mutant of FocusState_append: the entry is pushed at the end of the vector
FocusState_append_at_end(s, entry) ==
    [s EXCEPT !.entries = Append(s.entries, entry),
              !.pointer = IF ~s.follow_mode THEN s.pointer + 1 ELSE s.pointer]

\* mutant of FocusState_append: the pointer advances in follow mode too
FocusState_append_always_advancing(s, entry) ==
    [s EXCEPT !.entries = <<entry>> \o s.entries, !.pointer = s.pointer + 1]

\* mutant of FocusState_append: the pointer stays where it was
FocusState_append_pointer_fixed(s, entry) ==
    [s EXCEPT !.entries = <<entry>> \o s.entries]

\* entries.insert(0, entry); if !follow_mode { pointer += 1 }
FocusState_append(s, entry) ==
    [s EXCEPT !.entries = <<entry>> \o s.entries,
              !.pointer = IF ~s.follow_mode THEN s.pointer + 1 ELSE s.pointer]

\* if pointer > 0 { pointer -= 1; follow_mode = false }
FocusState_move_up(s) ==
    IF s.pointer > 0
    THEN [panicked |-> FALSE,
          s |-> [s EXCEPT !.pointer = s.pointer - 1, !.follow_mode = FALSE]]
    ELSE [panicked |-> FALSE, s |-> s]

\* mutant of FocusState_move_down: follow mode survives the move
FocusState_move_down_keeping_follow(s) ==
    IF s.entries # <<>> /\ s.pointer < Len(s.entries) - 1
    THEN [panicked |-> FALSE, s |-> [s EXCEPT !.pointer = s.pointer + 1]]
    ELSE [panicked |-> FALSE, s |-> s]

\* if !entries.is_empty() && pointer < entries.len() - 1 { pointer += 1; follow_mode = false }
\* (&& does not evaluate len() - 1 on an empty vector)
FocusState_move_down(s) ==
    IF s.entries # <<>> /\ s.pointer < Len(s.entries) - 1
    THEN [panicked |-> FALSE,
          s |-> [s EXCEPT !.pointer = s.pointer + 1, !.follow_mode = FALSE]]
    ELSE [panicked |-> FALSE, s |-> s]

\* follow_mode = !follow_mode; if follow_mode { pointer = 0 }
FocusState_toggle_follow_mode(s) ==
    [s EXCEPT !.follow_mode = ~s.follow_mode,
              !.pointer = IF ~s.follow_mode THEN 0 ELSE s.pointer]

\* entries.get(pointer)
FocusState_current_entry(s) ==
    IF s.pointer < Len(s.entries) THEN Some(s.entries[s.pointer + 1]) ELSE None

FocusState_len(s) == Len(s.entries)

\* ---------------------------------------------------------------- SpecFocus
\* One FocusState, from FocusState::new(), driven by its owner.
FocusInit ==
    /\ input = NotCalled /\ output = NotCalled
    /\ free_idle

focus_frame ==
    UNCHANGED <<buffer, recording, lock, channels, ppc, pdata, pchunks, cpc, cop, cn,
                work, clock, written, session, stale, dropped, input, output,
                app, rx, threads, sent>>

FocusAppend ==
    /\ ~last.panicked
    /\ Len(appended) < FocusMaxLen
    /\ \E entry \in FocusEntries :
         /\ focus' = FocusState_append(focus, entry)
         /\ appended' = Append(appended, entry)
         /\ last' = Returned("append", 0, <<entry>>, FALSE)
    /\ focus_frame

FocusMoveUp ==
    /\ ~last.panicked
    /\ LET res == FocusState_move_up(focus) IN
         /\ focus' = res.s
         /\ last' = IF res.panicked THEN Panicked("move_up", 0)
                    ELSE Returned("move_up", 0, <<>>, FALSE)
    /\ UNCHANGED appended
    /\ focus_frame

FocusMoveDown ==
    /\ ~last.panicked
    /\ LET res == FocusState_move_down(focus) IN
         /\ focus' = res.s
         /\ last' = IF res.panicked THEN Panicked("move_down", 0)
                    ELSE Returned("move_down", 0, <<>>, FALSE)
    /\ UNCHANGED appended
    /\ focus_frame

FocusToggleFollowMode ==
    /\ ~last.panicked
    /\ focus' = FocusState_toggle_follow_mode(focus)
    /\ last' = Returned("toggle_follow_mode", 0, <<>>, FALSE)
    /\ UNCHANGED appended
    /\ focus_frame

FocusNext == FocusAppend \/ FocusMoveUp \/ FocusMoveDown \/ FocusToggleFollowMode

SpecFocus == FocusInit /\ [][FocusNext]_vars

\* C22: append puts the new entry at index 0, moves every earlier entry one
\* position later and makes len() one larger, duplicates included; the entries
\* of a history are the entries appended to it, newest first.
C22_AppendPrepends ==
    /\ [](focus.entries = Reverse(appended))
    /\ [][appended' # appended =>
            /\ focus'.entries[1] = appended'[Len(appended')]
            /\ \A i \in 1..Len(focus.entries) : focus'.entries[i + 1] = focus.entries[i]
            /\ FocusState_len(focus') = FocusState_len(focus) + 1]_vars

\* three entries appended, the first and the last of them equal
C22_Witness ==
    /\ Len(appended) = 3 /\ appended[1] = appended[3] /\ appended[2] # appended[1]
    /\ last.op = "append"
    /\ focus.entries = <<appended[3], appended[2], appended[1]>>

\* C23: while follow mode is on, an append leaves the pointer at 0 and the
\* current entry is the entry just appended, however many appends came before.
C23_FollowModeTracksNewest ==
    [][appended' # appended /\ focus.follow_mode =>
         /\ focus'.pointer = 0
         /\ FocusState_current_entry(focus') = Some(appended'[Len(appended')])]_vars

\* a full history whose last append was made in follow mode
C23_Witness ==
    /\ Len(appended) = FocusMaxLen /\ last.op = "append" /\ focus.follow_mode
    /\ focus.pointer = 0
    /\ FocusState_current_entry(focus) = Some(last.vec[1])

\* C24: while follow mode is off, an append advances the pointer by one, so
\* that current_entry() is the same before and after the append.
C24_PointerStaysOnEntry ==
    [][appended' # appended /\ ~focus.follow_mode =>
         /\ focus'.pointer = focus.pointer + 1
         /\ FocusState_current_entry(focus') = FocusState_current_entry(focus)]_vars

\* an append made with follow mode off while the pointer was on the older of
\* two different entries
C24_Witness ==
    /\ last.op = "append" /\ ~focus.follow_mode
    /\ Len(focus.entries) = 3 /\ focus.pointer = 2
    /\ focus.entries[2] # focus.entries[3]
    /\ FocusState_current_entry(focus) = Some(appended[1])

\* the step is a call of move_up or move_down
IsMove == last'.op \in {"move_up", "move_down"}

\* C25: move_up and move_down never panic and leave the pointer on an entry
\* (at 0 on an empty history); they are no-ops on an empty history, at pointer 0
\* (move_up) and at index len - 1 (move_down), and otherwise change the pointer
\* by exactly one.
C25_MovesStayInRange ==
    /\ [](~last.panicked)
    /\ [][IsMove =>
            /\ focus'.pointer >= 0
            /\ focus'.entries = <<>> => focus'.pointer = 0
            /\ focus'.entries # <<>> => focus'.pointer <= Len(focus'.entries) - 1
            /\ focus.entries = <<>> => focus' = focus
            /\ IF focus.entries = <<>> THEN focus'.pointer = focus.pointer
               ELSE IF last'.op = "move_up"
               THEN focus'.pointer = IF focus.pointer = 0 THEN 0 ELSE focus.pointer - 1
               ELSE focus'.pointer = IF focus.pointer = Len(focus.entries) - 1
                                     THEN focus.pointer ELSE focus.pointer + 1]_vars

\* C26: a move that changes the pointer turns follow mode off, a move that does
\* not change it leaves follow mode as it was, and follow mode comes back on only
\* by toggle_follow_mode.
C26_ManualMoveDisablesFollow ==
    /\ [][IsMove =>
            /\ focus'.pointer # focus.pointer => ~focus'.follow_mode
            /\ focus'.pointer = focus.pointer => focus'.follow_mode = focus.follow_mode]_vars
    /\ [][~focus.follow_mode /\ focus'.follow_mode => last'.op = "toggle_follow_mode"]_vars

\* follow mode is off after a move_down that took the pointer off entry 0, with
\* no toggle_follow_mode in between
C26_Witness ==
    /\ last.op = "move_down" /\ ~focus.follow_mode
    /\ focus.pointer = 1 /\ Len(focus.entries) = 2

\* ---------------------------------------------------------------- map_tool_event
\* Strings are sequences of one-character strings, so that trim, strip_prefix
\* and split_whitespace are computed on the characters.
Whitespace == {" "}
Quotes == {"'", "\""}

RECURSIVE TrimStartMatches(_, _)
TrimStartMatches(s, set) ==
    IF s # <<>> /\ Head(s) \in set THEN TrimStartMatches(Tail(s), set) ELSE s

\* str::trim_matches(set): leading and trailing characters of the set removed
TrimMatches(s, set) == Reverse(TrimStartMatches(Reverse(TrimStartMatches(s, set)), set))

\* str::trim
Trim(s) == TrimMatches(s, Whitespace)

\* str::starts_with
StartsWith(s, prefix) ==
    Len(s) >= Len(prefix) /\ SubSeq(s, 1, Len(prefix)) = prefix

\* str::strip_prefix
StripPrefix(s, prefix) ==
    IF StartsWith(s, prefix) THEN Some(SubSeq(s, Len(prefix) + 1, Len(s))) ELSE None

RECURSIVE TakeWord(_)
TakeWord(s) ==
    IF s = <<>> \/ Head(s) \in Whitespace THEN <<>> ELSE <<Head(s)>> \o TakeWord(Tail(s))

\* s.split_whitespace().next()
FirstWord(s) ==
    LET t == TrimStartMatches(s, Whitespace) IN
    IF t = <<>> THEN None ELSE Some(TakeWord(t))

Str_cd == <<"c", "d">>
Str_cd_sp == <<"c", "d", " ">>
Str_git_checkout_sp == <<"g", "i", "t", " ", "c", "h", "e", "c", "k", "o", "u", "t", " ">>
Str_dash_b_sp == <<"-", "b", " ">>
Str_git_switch_sp == <<"g", "i", "t", " ", "s", "w", "i", "t", "c", "h", " ">>
Str_dash_c_sp == <<"-", "c", " ">>
Str_git_commit == <<"g", "i", "t", " ", "c", "o", "m", "m", "i", "t">>
Str_pending == <<"p", "e", "n", "d", "i", "n", "g">>
Str_home == <<"~">>

\* parse_bash_command
parse_bash_command(command) ==
    LET trimmed == Trim(command)
        cd == StripPrefix(trimmed, Str_cd_sp)
        checkout == StripPrefix(trimmed, Str_git_checkout_sp)
        switch == StripPrefix(trimmed, Str_git_switch_sp)
    IN  IF trimmed = Str_cd THEN Some(Directory(Str_home))
        ELSE IF cd.some THEN Some(Directory(TrimMatches(Trim(cd.val), Quotes)))
        ELSE IF checkout.some
             THEN LET rest == Trim(checkout.val)
                      b == StripPrefix(rest, Str_dash_b_sp)
                      branch == FirstWord(rest)
                  IN  IF b.some THEN Some(Branch(Trim(b.val)))
                      ELSE IF branch.some THEN Some(Branch(branch.val)) ELSE None
        ELSE IF switch.some
             THEN LET rest == Trim(switch.val)
                      c == StripPrefix(rest, Str_dash_c_sp)
                      branch == FirstWord(rest)
                  IN  IF c.some THEN Some(Branch(Trim(c.val)))
                      ELSE IF branch.some THEN Some(Branch(branch.val)) ELSE None
        ELSE IF StartsWith(trimmed, Str_git_commit) THEN Some(Commit(Str_pending))
        ELSE None

\* serde_json::Value: Null, a string, a number, or an object (a set of members)
JsonNull == [kind |-> "null"]
JsonString(s) == [kind |-> "string", str |-> s]
JsonNumber(n) == [kind |-> "number", num |-> n]
JsonObject(members) == [kind |-> "object", members |-> members]
Member(key, value) == [key |-> key, value |-> value]

\* Value::get(key): the member of an object, None on any other value
Json_get(v, key) ==
    IF v.kind = "object" /\ \E mem \in v.members : mem.key = key
    THEN Some((CHOOSE mem \in v.members : mem.key = key).value)
    ELSE None

\* Value::as_str
Json_as_str(v) == IF v.kind = "string" THEN Some(v.str) ELSE None

\* input.get(key)?.as_str()
StringField(v, key) ==
    LET field == Json_get(v, key) IN
    IF field.some THEN Json_as_str(field.val) ELSE None

ToolEvent(tool, in, state) == [tool |-> tool, input |-> in, state |-> state]

\* mutant of map_tool_event: the state of the event is not looked at
map_tool_event_any_state(event) ==
    IF event.tool \in {"read", "write", "edit"}
    THEN LET path == StringField(event.input, "filePath") IN
         IF path.some THEN Some(File(path.val)) ELSE None
    ELSE IF event.tool = "bash"
    THEN LET command == StringField(event.input, "command") IN
         IF command.some THEN parse_bash_command(command.val) ELSE None
    ELSE IF event.tool = "list"
    THEN LET path == StringField(event.input, "path") IN
         IF path.some THEN Some(Directory(path.val)) ELSE None
    ELSE None

map_tool_event(event) ==
    IF event.state # "completed" THEN None
    ELSE IF event.tool \in {"read", "write", "edit"}
    THEN LET path == StringField(event.input, "filePath") IN
         IF path.some THEN Some(File(path.val)) ELSE None
    ELSE IF event.tool = "bash"
    THEN LET command == StringField(event.input, "command") IN
         IF command.some THEN parse_bash_command(command.val) ELSE None
    ELSE IF event.tool = "list"
    THEN LET path == StringField(event.input, "path") IN
         IF path.some THEN Some(Directory(path.val)) ELSE None
    ELSE None

\* the loop of rebuild_from_events over the events not yet visited
RECURSIVE rebuild_loop(_, _)
rebuild_loop(state, events) ==
    IF events = <<>> THEN state
    ELSE LET entry == map_tool_event(Head(events)) IN
         rebuild_loop(IF entry.some THEN FocusState_append(state, entry.val) ELSE state,
                      Tail(events))

rebuild_from_events(events) == rebuild_loop(FocusState_new, events)

\* ---------------------------------------------------------------- SpecRebuild
\* SpecRebuild: length of the event log
RebuildMaxEvents == 3

Str_a_rs == <<"a", ".", "r", "s">>
Str_b_rs == <<"b", ".", "r", "s">>
Str_src == <<"s", "r", "c">>

FilePath(path) == JsonObject({Member("filePath", JsonString(path))})
Command(command) == JsonObject({Member("command", JsonString(command))})

\* the events of the log: every tool, completed or not, well-formed or not
RebuildEvents ==
    { ToolEvent("read", FilePath(Str_a_rs), "completed"),
      ToolEvent("write", FilePath(Str_b_rs), "completed"),
      ToolEvent("edit", FilePath(Str_a_rs), "running"),
      ToolEvent("read", JsonObject({}), "completed"),
      ToolEvent("write", JsonNull, "completed"),
      ToolEvent("edit", JsonObject({Member("filePath", JsonNumber(1))}), "completed"),
      ToolEvent("bash", Command(<<" ", "c", "d", " ", "'", "s", "r", "c", "'", " ">>), "completed"),
      ToolEvent("bash", Command(<<"g", "i", "t", " ", "c", "h", "e", "c", "k", "o", "u", "t", " ", "-", "b", " ", "f", "e", "a", "t">>), "completed"),
      ToolEvent("bash", Command(<<"g", "i", "t", " ", "s", "w", "i", "t", "c", "h", " ", "f", "e", "a", "t">>), "pending"),
      ToolEvent("bash", Command(<<"g", "i", "t", " ", "c", "o", "m", "m", "i", "t", " ", "-", "m", " ", "x">>), "completed"),
      ToolEvent("bash", Command(<<"l", "s">>), "completed"),
      ToolEvent("list", JsonObject({Member("path", JsonString(Str_src))}), "completed"),
      ToolEvent("grep", JsonObject({Member("path", JsonString(Str_src))}), "completed"),
      ToolEvent("glob", FilePath(Str_a_rs), "completed") }

RECURSIVE SeqsUpTo(_, _)
\* the sequences over S of length at most n
SeqsUpTo(S, n) ==
    IF n = 0 THEN {<<>>}
    ELSE LET shorter == SeqsUpTo(S, n - 1) IN
         shorter \cup {Append(s, x) : s \in shorter, x \in S}

RebuildInit ==
    /\ \E events \in SeqsUpTo(RebuildEvents, RebuildMaxEvents) :
           input = [fn |-> "rebuild_from_events", events |-> events]
    /\ output = NotCalled
    /\ free_idle

RebuildCall ==
    /\ input.fn = "rebuild_from_events" /\ output = NotCalled
    /\ output' = [fn |-> "rebuild_from_events", ret |-> rebuild_from_events(input.events)]
    /\ UNCHANGED <<input, focus, appended, app, rx, threads, sent>>
    /\ free_unchanged

SpecRebuild == RebuildInit /\ [][RebuildCall]_vars

\* the entries of the events that map to one, in the order of the events
RECURSIVE Mapped(_)
Mapped(events) ==
    IF events = <<>> THEN <<>>
    ELSE LET entry == map_tool_event(Head(events)) IN
         (IF entry.some THEN <<entry.val>> ELSE <<>>) \o Mapped(Tail(events))

\* FocusState::new() followed by one append per entry, oldest first
RECURSIVE AppendAll(_, _)
AppendAll(state, entries) ==
    IF entries = <<>> THEN state
    ELSE AppendAll(FocusState_append(state, Head(entries)), Tail(entries))

\* the tools map_tool_event has an entry for
MappedTools == {"read", "write", "edit", "bash", "list"}

\* the events that are completed and whose tool is mapped
CanContribute(events) ==
    {i \in 1..Len(events) : events[i].state = "completed" /\ events[i].tool \in MappedTools}

\* C27: rebuild_from_events(events) is the state reached from FocusState::new()
\* by appending, oldest first, the entry of every event that maps to one: its
\* entries are those entries newest first, events that are not completed or
\* whose tool is unmapped add no entry, the pointer is 0 with follow mode on,
\* and the empty log gives FocusState::new().
C27_RebuildIsAppendFold ==
    output # NotCalled /\ output.fn = "rebuild_from_events" =>
        /\ output.ret = AppendAll(FocusState_new, Mapped(input.events))
        /\ output.ret.entries = Reverse(Mapped(input.events))
        /\ Len(output.ret.entries) <= Cardinality(CanContribute(input.events))
        /\ output.ret.pointer = 0 /\ output.ret.follow_mode
        /\ input.events = <<>> => output.ret = FocusState_new

\* a log of a read, an unfinished edit and a cd: two entries, the directory first
C27_Witness ==
    /\ output # NotCalled /\ output.fn = "rebuild_from_events"
    /\ Len(input.events) = 3
    /\ input.events[2].state = "running"
    /\ output.ret.entries = <<Directory(Str_src), File(Str_a_rs)>>

\* ================================================================ run_app
\* src/src/main.rs: the main loop with its App, the channel of AppMessages, the
\* transcription threads and the prompt tasks.  The AudioCapture calls of the
\* loop and the input callback each run under the mutex and are taken as one
\* step here.  The frames of the hardware are numbered by clock as above; the
\* text whisper makes of a capture is named by the capture's first frame.

\* SpecApp: frames the hardware delivers, and ServerEvents waiting in the channel
AppMaxFrames == 2
AppMaxEvents == 1

\* AppMessage
TranscriptReady(result) == [kind |-> "TranscriptReady", result |-> result]
PromptSent(result) == [kind |-> "PromptSent", result |-> result]
ServerEvent == [kind |-> "ServerEvent"]

\* Result<T>
ResultOk(v) == [ok |-> TRUE, val |-> v]
ResultErr == [ok |-> FALSE]

\* String::new(), and the text of the capture that starts with frame k
EmptyText == 0
Text(samples) == Head(samples)

\* what Transcriber::transcribe can return: Ok(String::new()) for an empty
\* capture, and otherwise the text, no text (silence), or an error of whisper
TranscribeResults(samples) ==
    IF samples = <<>> THEN {ResultOk(EmptyText)}
    ELSE {ResultOk(Text(samples)), ResultOk(EmptyText), ResultErr}

\* the threads and tasks that still have their message to send
TranscribeThread(samples) == [kind |-> "transcribe", samples |-> samples]
SendPromptTask(text) == [kind |-> "send_prompt", text |-> text]

\* mutant of handle_message: a failed transcription leaves the state as it is
handle_message_stuck_on_error(a, msg) ==
    IF msg.kind = "TranscriptReady"
    THEN IF msg.result.ok /\ msg.result.val # EmptyText
         THEN [a EXCEPT !.pending_transcript = FALSE,
                        !.transcripts = Append(a.transcripts, msg.result.val),
                        !.prompt_pending = Some(msg.result.val),
                        !.error = None,
                        !.state = "Idle"]
         ELSE IF msg.result.ok
         THEN [a EXCEPT !.pending_transcript = FALSE,
                        !.error = Some("No speech detected"),
                        !.state = "Idle"]
         ELSE [a EXCEPT !.pending_transcript = FALSE,
                        !.error = Some("Transcription error")]
    ELSE IF msg.kind = "PromptSent"
    THEN IF msg.result.ok THEN a ELSE [a EXCEPT !.error = Some("Send failed")]
    ELSE a

\* the body of `while let Ok(msg) = rx.try_recv()` for one message; ServerEvent,
\* SessionReady and ConnectionChanged write connection_status, opencode_busy and
\* session_slug only
handle_message(a, msg) ==
    IF msg.kind = "TranscriptReady"
    THEN IF msg.result.ok /\ msg.result.val # EmptyText
         THEN [a EXCEPT !.pending_transcript = FALSE,
                        !.transcripts = Append(a.transcripts, msg.result.val),
                        !.prompt_pending = Some(msg.result.val),
                        !.error = None,
                        !.state = "Idle"]
         ELSE IF msg.result.ok
         THEN [a EXCEPT !.pending_transcript = FALSE,
                        !.error = Some("No speech detected"),
                        !.state = "Idle"]
         ELSE [a EXCEPT !.pending_transcript = FALSE,
                        !.error = Some("Transcription error"),
                        !.state = "Idle"]
    ELSE IF msg.kind = "PromptSent"
    THEN IF msg.result.ok THEN a ELSE [a EXCEPT !.error = Some("Send failed")]
    ELSE a

\* what a key handler does besides writing App: the recording flag and the
\* buffer after it, the capture it took, the thread and the prompt it started
KeyEffect(a, rec, buf, samples, spawned, prompt) ==
    [app |-> a, recording |-> rec, buffer |-> buf, samples |-> samples,
     spawned |-> spawned, prompt |-> prompt]

\* mutant of is_empty: no capture counts as empty
is_empty_never(samples) == FALSE

\* samples.is_empty()
is_empty(samples) == samples = <<>>

\* mutant of handle_space: an empty capture returns before stop_recording has
\* turned the flag off
handle_space_flag_left_on(a, rec, buf) ==
    IF a.state = "Idle"
    THEN KeyEffect([a EXCEPT !.state = "Recording", !.error = None],
                   TRUE, RingBuffer_clear(buf), <<>>, {}, None)
    ELSE IF a.state = "Recording"
    THEN LET samples == RingBuffer_read_all(buf).val IN
         IF is_empty(samples)
         THEN KeyEffect([a EXCEPT !.error = Some("No audio captured"), !.state = "Idle"],
                        rec, buf, samples, {}, None)
         ELSE KeyEffect([a EXCEPT !.state = "Processing", !.pending_transcript = TRUE],
                        FALSE, buf, samples, {TranscribeThread(samples)}, None)
    ELSE KeyEffect(a, rec, buf, <<>>, {}, None)

\* handle_space, with AudioCapture::start_recording and stop_recording
handle_space(a, rec, buf) ==
    IF a.state = "Idle"
    THEN KeyEffect([a EXCEPT !.state = "Recording", !.error = None],
                   TRUE, RingBuffer_clear(buf), <<>>, {}, None)
    ELSE IF a.state = "Recording"
    THEN LET samples == RingBuffer_read_all(buf).val IN
         IF is_empty(samples)
         THEN KeyEffect([a EXCEPT !.error = Some("No audio captured"), !.state = "Idle"],
                        FALSE, buf, samples, {}, None)
         ELSE KeyEffect([a EXCEPT !.state = "Processing", !.pending_transcript = TRUE],
                        FALSE, buf, samples, {TranscribeThread(samples)}, None)
    ELSE KeyEffect(a, rec, buf, <<>>, {}, None)

\* app.prompt_pending.is_none()
space_enabled(a) == a.prompt_pending = None

\* mutant of discard_prompt: the discarded prompt is sent
discard_prompt_sending(a, rec, buf) ==
    IF a.prompt_pending.some
    THEN KeyEffect([a EXCEPT !.prompt_pending = None, !.error = Some("Prompt discarded")],
                   rec, buf, <<>>, {}, a.prompt_pending)
    ELSE KeyEffect(a, rec, buf, <<>>, {}, None)

\* KeyCode::Backspace | KeyCode::Delete
discard_prompt(a, rec, buf) ==
    IF a.prompt_pending.some
    THEN KeyEffect([a EXCEPT !.prompt_pending = None, !.error = Some("Prompt discarded")],
                   rec, buf, <<>>, {}, None)
    ELSE KeyEffect(a, rec, buf, <<>>, {}, None)

\* KeyCode::Enter
send_prompt(a, rec, buf) ==
    IF a.prompt_pending.some
    THEN KeyEffect([a EXCEPT !.prompt_pending = None, !.error = None],
                   rec, buf, <<>>, {}, a.prompt_pending)
    ELSE KeyEffect(a, rec, buf, <<>>, {}, None)

\* the keys that do not end run_app; "Other" is any key without a match arm
\* and any event that is not a key press
Keys == {"Space", "Enter", "Backspace", "Delete", "Other"}

\* match key.code
key_event(key, a, rec, buf) ==
    IF key = "Space"
    THEN IF space_enabled(a) THEN handle_space(a, rec, buf)
         ELSE KeyEffect(a, rec, buf, <<>>, {}, None)
    ELSE IF key = "Enter" THEN send_prompt(a, rec, buf)
    ELSE IF key \in {"Backspace", "Delete"} THEN discard_prompt(a, rec, buf)
    ELSE KeyEffect(a, rec, buf, <<>>, {}, None)

\* ---------------------------------------------------------------- SpecApp
\* run_app after App::new, an AudioCapture that is not recording
AppInit ==
    /\ buffer = RingBuffer_new(AppMaxFrames)
    /\ recording = FALSE /\ lock = "none" /\ channels = 1
    /\ ppc = "idle" /\ pdata = <<>> /\ pchunks = <<>>
    /\ cpc = "drain" /\ cop = "none" /\ cn = 0 /\ work = "none"
    /\ last = NoCall
    /\ clock = 0
    /\ written = <<>> /\ session = <<>> /\ stale = {} /\ dropped = {}
    /\ input = NotCalled /\ output = NotCalled
    /\ tui_idle

app_frame ==
    UNCHANGED <<lock, channels, ppc, pdata, pchunks, cop, cn, work, written, session,
                stale, dropped, input, output, focus, appended>>

\* the input callback with one frame: written to the buffer while recording
AppCallback ==
    /\ cpc # "exited"
    /\ clock < AppMaxFrames
    /\ clock' = clock + 1
    /\ buffer' = IF recording THEN RingBuffer_write(buffer, <<clock + 1>>).rb ELSE buffer
    /\ UNCHANGED <<recording, cpc, last, app, rx, threads, sent>>
    /\ app_frame

\* connect_opencode's task sends a ServerEvent
AppServerEvent ==
    /\ cpc # "exited"
    /\ Cardinality({i \in 1..Len(rx) : rx[i].kind = "ServerEvent"}) < AppMaxEvents
    /\ rx' = Append(rx, ServerEvent)
    /\ UNCHANGED <<buffer, recording, cpc, last, clock, app, threads, sent>>
    /\ app_frame

\* a transcription thread finishes: transcribe, then tx.send(TranscriptReady(result)),
\* whose error (the receiver is gone) is ignored
AppTranscribed ==
    /\ \E t \in threads :
         /\ t.kind = "transcribe"
         /\ \E result \in TranscribeResults(t.samples) :
              rx' = IF cpc = "exited" THEN rx ELSE Append(rx, TranscriptReady(result))
         /\ threads' = threads \ {t}
    /\ UNCHANGED <<buffer, recording, cpc, last, clock, app, sent>>
    /\ app_frame

\* a task of send_prompt_to_opencode finishes: tx.send(PromptSent(result))
AppPromptTask ==
    /\ \E t \in threads :
         /\ t.kind = "send_prompt"
         /\ \E result \in {ResultOk(<<>>), ResultErr} :
              rx' = IF cpc = "exited" THEN rx ELSE Append(rx, PromptSent(result))
         /\ threads' = threads \ {t}
    /\ UNCHANGED <<buffer, recording, cpc, last, clock, app, sent>>
    /\ app_frame

\* one iteration of the drain loop
AppReceive ==
    /\ cpc = "drain" /\ rx # <<>>
    /\ app' = handle_message(app, Head(rx))
    /\ rx' = Tail(rx)
    /\ last' = Returned(Head(rx).kind, 0, <<>>, FALSE)
    /\ UNCHANGED <<buffer, recording, cpc, clock, threads, sent>>
    /\ app_frame

\* try_recv finds the channel empty: snapshot of the waveform, draw, then poll
AppDrained ==
    /\ cpc = "drain" /\ rx = <<>>
    /\ cpc' = "poll"
    /\ UNCHANGED <<buffer, recording, last, clock, app, rx, threads, sent>>
    /\ app_frame

\* event::poll times out without an event
AppPollTimeout ==
    /\ cpc = "poll"
    /\ cpc' = "drain"
    /\ last' = Returned("timeout", 0, <<>>, FALSE)
    /\ UNCHANGED <<buffer, recording, clock, app, rx, threads, sent>>
    /\ app_frame

\* a key press is handled
AppKey ==
    /\ cpc = "poll"
    /\ \E key \in Keys :
         LET eff == key_event(key, app, recording, buffer) IN
         /\ app' = eff.app
         /\ recording' = eff.recording
         /\ buffer' = eff.buffer
         /\ threads' = threads \cup eff.spawned
                          \cup (IF eff.prompt.some THEN {SendPromptTask(eff.prompt.val)} ELSE {})
         /\ sent' = IF eff.prompt.some THEN Append(sent, eff.prompt.val) ELSE sent
         /\ last' = Returned(key, 0, eff.samples, FALSE)
    /\ cpc' = "drain"
    /\ UNCHANGED <<clock, rx>>
    /\ app_frame

\* 'q', Esc or Ctrl-C: run_app returns, App and the receiver are dropped
AppQuit ==
    /\ cpc = "poll"
    /\ cpc' = "exited"
    /\ rx' = <<>>
    /\ last' = Returned("q", 0, <<>>, FALSE)
    /\ UNCHANGED <<buffer, recording, clock, app, threads, sent>>
    /\ app_frame

AppNext ==
    \/ AppCallback \/ AppServerEvent \/ AppTranscribed \/ AppPromptTask
    \/ AppReceive \/ AppDrained \/ AppPollTimeout \/ AppKey \/ AppQuit

SpecApp == AppInit /\ [][AppNext]_vars

\* the step handles the key press `key`
IsKey(key) == cpc = "poll" /\ cpc' = "drain" /\ last'.op = key

\* C28: App.state changes only by Idle -> Recording on Space (start_recording
\* is called), Recording -> Processing on Space when stop_recording returns a
\* non-empty capture (one transcription thread is started), Recording -> Idle on
\* Space when the capture is empty (error "No audio captured", no thread), and
\* Processing -> Idle on receipt of TranscriptReady; Space takes these
\* transitions whenever it is handled, and changes nothing in Processing.
C28_PushToTalkTransitions ==
    /\ [][app'.state # app.state =>
            \/ /\ app.state = "Idle" /\ app'.state = "Recording"
               /\ IsKey("Space")
               /\ recording' /\ RingBuffer_is_empty(buffer')
               /\ threads' = threads
            \/ /\ app.state = "Recording" /\ app'.state = "Processing"
               /\ IsKey("Space")
               /\ ~recording'
               /\ last'.vec = RingBuffer_read_all(buffer).val /\ last'.vec # <<>>
               /\ TranscribeThread(last'.vec) \notin threads
               /\ threads' = threads \cup {TranscribeThread(last'.vec)}
            \/ /\ app.state = "Recording" /\ app'.state = "Idle"
               /\ IsKey("Space")
               /\ ~recording'
               /\ RingBuffer_read_all(buffer).val = <<>>
               /\ app'.error = Some("No audio captured")
               /\ threads' = threads
            \/ /\ app.state = "Processing" /\ app'.state = "Idle"
               /\ cpc = "drain" /\ rx # <<>> /\ Head(rx).kind = "TranscriptReady"
               /\ rx' = Tail(rx)]_vars
    /\ [][IsKey("Space") /\ space_enabled(app) =>
            /\ app.state = "Idle" => app'.state = "Recording"
            /\ app.state = "Recording" =>
                 app'.state = IF RingBuffer_read_all(buffer).val = <<>>
                              THEN "Idle" ELSE "Processing"
            /\ app.state = "Processing" =>
                 /\ app' = app /\ threads' = threads /\ rx' = rx
                 /\ recording' = recording /\ buffer' = buffer]_vars

\* after one capture went through Recording, Processing and back to Idle, a
\* second Space-Space found nothing captured
C28_Witness ==
    /\ Len(app.transcripts) = 1
    /\ last.op = "Space" /\ app.state = "Idle"
    /\ app.error = Some("No audio captured")

\* ---------------------------------------------------------------- FairAppSpec
\* A spawned transcription thread runs to its end, and the main loop keeps
\* going round: it handles the message try_recv returns, leaves the drain loop
\* when the channel is empty, and leaves event::poll after its 50 ms at the latest.
AppFairness ==
    /\ WF_vars(AppTranscribed)
    /\ WF_vars(AppReceive)
    /\ WF_vars(AppDrained)
    /\ WF_vars(AppPollTimeout)

FairAppSpec == AppInit /\ [][AppNext]_vars /\ AppFairness

\* the transcription threads that have not sent yet, and the TranscriptReady
\* messages not yet received
TranscriptsInFlight ==
    Cardinality({t \in threads : t.kind = "transcribe"})
    + Cardinality({i \in 1..Len(rx) : rx[i].kind = "TranscriptReady"})

\* C29: while run_app runs, state Processing has exactly one transcription
\* thread or TranscriptReady message under way and the other states have none;
\* the thread ends by sending one TranscriptReady, success or error; and
\* Processing leads to Idle with pending_transcript false, unless the user
\* ends run_app first.
C29_ProcessingReturnsToIdle ==
    /\ [](cpc # "exited" =>
            /\ TranscriptsInFlight = IF app.state = "Processing" THEN 1 ELSE 0
            /\ app.pending_transcript <=> app.state = "Processing")
    /\ [][\A t \in threads \ threads' :
            t.kind = "transcribe" /\ cpc # "exited" =>
                /\ threads' = threads \ {t}
                /\ \E result \in {ResultOk(Text(t.samples)), ResultOk(EmptyText), ResultErr} :
                       rx' = Append(rx, TranscriptReady(result))]_vars
    /\ (app.state = "Processing") ~>
           (cpc = "exited" \/ (app.state = "Idle" /\ ~app.pending_transcript))

\* back in Idle after a transcription that failed
C29_Witness ==
    /\ cpc = "drain" /\ last.op = "TranscriptReady"
    /\ app.state = "Idle" /\ ~app.pending_transcript
    /\ app.error = Some("Transcription error")
    /\ TranscriptsInFlight = 0

\* C30: a transcript is passed to send_prompt_to_opencode only by Enter while
\* it is the pending prompt, and never twice; Enter, Backspace and Delete leave
\* no prompt pending, Backspace and Delete send nothing; Space is ignored while
\* a prompt is pending, and a pending prompt implies state Idle with the
\* recording flag off.
C30_PromptSentOnceByEnter ==
    /\ [](/\ \A i, j \in 1..Len(sent) : i # j => sent[i] # sent[j]
          /\ Range(sent) \subseteq Range(app.transcripts)
          /\ app.prompt_pending.some => app.state = "Idle" /\ ~recording)
    /\ [][sent' # sent =>
            /\ IsKey("Enter") /\ app.prompt_pending.some
            /\ sent' = Append(sent, app.prompt_pending.val)]_vars
    /\ [][IsKey("Enter") \/ IsKey("Backspace") \/ IsKey("Delete") =>
            /\ app'.prompt_pending = None
            /\ ~IsKey("Enter") => sent' = sent /\ threads' = threads]_vars
    /\ [][IsKey("Space") /\ app.prompt_pending.some =>
            /\ app' = app /\ threads' = threads
            /\ recording' = recording /\ buffer' = buffer]_vars

\* of two transcripts the first was sent by Enter and the second discarded
C30_Witness ==
    /\ Len(app.transcripts) = 2
    /\ sent = <<app.transcripts[1]>>
    /\ last.op = "Backspace" /\ app.prompt_pending = None
    /\ app.error = Some("Prompt discarded")

\* ================================================================ C31 .. C34

\* C31: for len(samples) >= n >= 1 and q = len div n, compute_rms_windows
\* returns for window i < n - 1 the RMS of samples[i*q .. (i+1)*q) and for
\* window n - 1 the RMS of samples[(n-1)*q .. len): the windows follow one
\* another, every index is in exactly one window, and every window but the last
\* has q samples, the last one q + len mod n.
C31_WindowsPartitionSamples ==
    output.fn = "compute_rms_windows" /\ input.num_windows >= 1
      /\ Len(input.samples) >= input.num_windows =>
        LET n == input.num_windows
            len == Len(input.samples)
            q == len \div n
            w(i) == Window(i, q, n, len)
        IN /\ ~output.panicked /\ Len(output.ret) = n
           /\ \A i \in 0..(n - 2) :
                /\ w(i).start = i * q /\ w(i).end = (i + 1) * q
                /\ w(i).end = w(i + 1).start
                /\ output.ret[i + 1] = Rms(SubSeq(input.samples, i * q + 1, (i + 1) * q))
           /\ w(n - 1).start = (n - 1) * q /\ w(n - 1).end = len
           /\ w(n - 1).end - w(n - 1).start = q + (len % n)
           /\ output.ret[n] = Rms(SubSeq(input.samples, (n - 1) * q + 1, len))
           /\ \A k \in 0..(len - 1) :
                Cardinality({i \in 0..(n - 1) : w(i).start <= k /\ k < w(i).end}) = 1

\* five samples in three windows, the only non-zero sample in the remainder:
\* the last window, of three samples, is the only one with a non-zero value
C31_Witness ==
    /\ output.fn = "compute_rms_windows"
    /\ input.num_windows = 3 /\ input.samples = <<0, 0, 0, 0, 1>>
    /\ output.ret = <<[sq |-> Zero], [sq |-> Zero], [sq |-> Ratio(1, 3)]>>

\* C32: in every reachable state of a RingBuffer of capacity C > 0 the write
\* cursor is below C and equals the number of samples written since creation
\* or the last clear, modulo C; while count < C the cursor equals the count;
\* and no operation changes the capacity or the length of the storage.
C32_CursorAndStorageInvariants ==
    /\ [](RingBuffer_capacity(buffer) > 0 =>
            /\ buffer.write_pos < buffer.capacity
            /\ buffer.write_pos = Len(written) % buffer.capacity
            /\ buffer.count < buffer.capacity => buffer.write_pos = buffer.count)
    /\ [](Len(buffer.data) = buffer.capacity)
    /\ [][/\ RingBuffer_capacity(buffer') = RingBuffer_capacity(buffer)
          /\ Len(buffer'.data) = Len(buffer.data)]_vars

\* a buffer of capacity 3 written past its end, cleared, and written again:
\* two samples since the clear, cursor and count at 2, the old sample still stored
C32_Witness ==
    /\ buffer.capacity = 3 /\ last.op = "write"
    /\ Len(written) = 2 /\ written[1] > 4
    /\ buffer.write_pos = 2 /\ buffer.count = 2
    /\ buffer.data[3] # 0

\* the mono samples the callback in progress has still to write
RECURSIVE MonoAll(_, _)
MonoAll(chunks, ch) ==
    IF chunks = <<>> THEN <<>> ELSE <<Mono(Head(chunks), ch)>> \o MonoAll(Tail(chunks), ch)

\* the callback is inside its critical section
InCallback == ppc \in {"write", "unlock"}

\* C33: the body of start_recording, stop_recording, is_recording and
\* read_last_samples runs only while no callback is inside its critical
\* section, on a buffer to which every accepted callback of the session has
\* written all of its mono samples (and every other callback none); the
\* callback holds the lock from try_lock to the end of its write loop, and the
\* recording flag never changes while a callback is inside.
C33_CallbacksAreAtomic ==
    /\ [](cpc = "body" =>
            /\ lock = "consumer" /\ ~InCallback
            /\ written = session)
    /\ [](InCallback => lock = "producer" /\ cpc # "body")
    /\ [](ppc = "write" =>
            /\ recording
            /\ written \o MonoAll(pchunks, channels) = session)
    /\ [][recording' # recording => ~InCallback /\ cpc = "body"]_vars
    /\ [][InCallback /\ written' # written =>
            ppc = "write" /\ written' = Append(written, Mono(Head(pchunks), channels))]_vars

\* stop_recording runs on a buffer holding both samples of a two-frame
\* callback, while the next callback has been invoked and not yet tried the lock
C33_Witness ==
    /\ cpc = "body" /\ cop = "stop_recording" /\ recording
    /\ ppc = "try_lock"
    /\ Len(session) = 2 /\ written = session
    /\ buffer.count = 2

\* AudioCapture::is_recording
is_recording == recording

\* C34: after every key press the main loop has handled, App.state is
\* Recording exactly when is_recording() is true; the flag is off in Idle and in
\* Processing.
C34_StateMatchesRecordingFlag ==
    /\ [][cpc = "poll" /\ cpc' = "drain" =>
            (app'.state = "Recording" <=> is_recording')]_vars
    /\ [](app.state = "Recording" <=> is_recording)
    /\ [](app.state \in {"Idle", "Processing"} => ~is_recording)

\* recording for the second time, after a first capture was transcribed
C34_Witness ==
    /\ last.op = "Space" /\ cpc = "drain"
    /\ app.state = "Recording" /\ is_recording
    /\ Len(app.transcripts) = 1
====
